---- MODULE Spec2Model ----
(***************************************************************************)
(* GemFlare: a private RubyGems server on Cloudflare Workers.  Gem          *)
(* metadata lives in a KV namespace (GEMFLARE_KV), gem archives and the     *)
(* legacy index files (specs.4.8.gz, latest_specs.4.8.gz,                   *)
(* prerelease_specs.4.8.gz) live in an R2 bucket (GEMFLARE_BUCKET).         *)
(*                                                                          *)
(* Strings and blobs are sequences of byte values, so that key layout,      *)
(* Marshal encoding and the gzip container are modelled byte for byte.      *)
(* Every await on KV or R2 is one step of a request; everything between     *)
(* two awaits is computed inside the step that follows the earlier await.   *)
(***************************************************************************)
EXTENDS Integers, Sequences, FiniteSets, TLC

\* ------------------------------------------------------------------------
\* Bounds of the model
\* ------------------------------------------------------------------------

\* number of HTTP requests issued in one behaviour
MaxReq == 2

\* number of KV / R2 calls that may fail in one behaviour
MaxFaults == 1

\* ------------------------------------------------------------------------
\* State
\* ------------------------------------------------------------------------

VARIABLES
  kv,          \* GEMFLARE_KV: key -> stored gem metadata
  r2,          \* GEMFLARE_BUCKET: key -> bytes
  req,         \* the requests: position in the handler and its locals
  started,     \* number of requests issued so far
  faults,      \* number of KV / R2 calls that have failed so far
  now,         \* the clock: the last value read from Date
  sessions,    \* history: the session tokens that POST /login has issued
  lastWriter   \* history: the request whose put to an index key came last

\* ------------------------------------------------------------------------
\* String literals of the source, as byte sequences
\* ------------------------------------------------------------------------

\* "specs.4.8.gz"
SpecsKey == <<115, 112, 101, 99, 115, 46, 52, 46, 56, 46, 103, 122>>

\* "latest_specs.4.8.gz"
LatestSpecsKey == <<108, 97, 116, 101, 115, 116, 95, 115, 112, 101, 99, 115, 46, 52, 46, 56, 46, 103, 122>>

\* "prerelease_specs.4.8.gz"
PrereleaseSpecsKey == <<112, 114, 101, 114, 101, 108, 101, 97, 115, 101, 95, 115, 112, 101, 99, 115, 46, 52, 46, 56, 46, 103, 122>>

IndexKeys == {SpecsKey, LatestSpecsKey, PrereleaseSpecsKey}

\* "gem:"
GemPrefix == <<103, 101, 109, 58>>

\* "gems/"
GemsDir == <<103, 101, 109, 115, 47>>

\* ".gem"
GemExt == <<46, 103, 101, 109>>

\* "ruby"
Ruby == <<114, 117, 98, 121>>

\* "java"
Java == <<106, 97, 118, 97>>

\* "foo", "bar"
Foo == <<102, 111, 111>>
Bar == <<98, 97, 114>>

\* "1.0.0", "2.0.0"
V100 == <<49, 46, 48, 46, 48>>
V200 == <<50, 46, 48, 46, 48>>

\* ------------------------------------------------------------------------
\* Sequence helpers
\* ------------------------------------------------------------------------

Range(s) == {s[i] : i \in DOMAIN s}

IsPrefix(p, s) == Len(p) <= Len(s) /\ SubSeq(s, 1, Len(p)) = p

\* byte-wise lexicographic order, the order in which kv.list returns keys
LexLess(a, b) ==
  \E i \in 1..(Len(a) + 1) :
     /\ i <= Len(b)
     /\ \A j \in 1..(i - 1) : a[j] = b[j]
     /\ (i = Len(a) + 1 \/ a[i] < b[i])

RECURSIVE SortedKeys(_)
SortedKeys(S) ==
  IF S = {} THEN <<>>
  ELSE LET m == CHOOSE x \in S : \A y \in S \ {x} : LexLess(x, y)
       IN  <<m>> \o SortedKeys(S \ {m})

\* ------------------------------------------------------------------------
\* String.prototype.localeCompare
\* ------------------------------------------------------------------------

IsDigit(c) == c >= 48 /\ c <= 57
IsUpper(c) == c >= 65 /\ c <= 90
IsLower(c) == c >= 97 /\ c <= 122

\* primary collation weight of a character that is not part of a digit run:
\* punctuation sorts before digits, digits before letters, letters without
\* regard to case
PrimaryWeight(c) ==
  IF IsLower(c) THEN 1000 + (c - 97)
  ELSE IF IsUpper(c) THEN 1000 + (c - 65)
  ELSE IF c = 95 THEN 1
  ELSE IF c = 45 THEN 2
  ELSE IF c = 46 THEN 8
  ELSE 10 + c

\* length of the digit run of s that starts at position i
RECURSIVE DigitRun(_, _)
DigitRun(s, i) ==
  IF i <= Len(s) /\ IsDigit(s[i]) THEN 1 + DigitRun(s, i + 1) ELSE 0

RECURSIVE DigitsValue(_, _, _)
DigitsValue(s, i, n) ==
  IF n = 0 THEN 0 ELSE DigitsValue(s, i, n - 1) * 10 + (s[i + n - 1] - 48)

\* collation elements: a digit run is one element ordered by its value
\* (numeric: true), any other character is one element
RECURSIVE CollationElements(_, _, _)
CollationElements(s, i, numeric) ==
  IF i > Len(s) THEN <<>>
  ELSE IF IsDigit(s[i]) /\ numeric
       THEN LET n == DigitRun(s, i)
            IN  <<[digits |-> TRUE, w |-> DigitsValue(s, i, n)]>>
                  \o CollationElements(s, i + n, numeric)
  ELSE IF IsDigit(s[i])
       THEN <<[digits |-> TRUE, w |-> s[i] - 48]>> \o CollationElements(s, i + 1, numeric)
  ELSE <<[digits |-> FALSE, w |-> PrimaryWeight(s[i])]>> \o CollationElements(s, i + 1, numeric)

ElementLess(x, y) ==
  IF x.digits = y.digits THEN x.w < y.w
  ELSE IF x.digits THEN y.w >= 1000
  ELSE x.w < 1000

RECURSIVE CompareElements(_, _, _)
CompareElements(a, b, i) ==
  IF i > Len(a) /\ i > Len(b) THEN 0
  ELSE IF i > Len(a) THEN -1
  ELSE IF i > Len(b) THEN 1
  ELSE IF ElementLess(a[i], b[i]) THEN -1
  ELSE IF ElementLess(b[i], a[i]) THEN 1
  ELSE CompareElements(a, b, i + 1)

\* tie-break of the default sensitivity: at the first difference in case the
\* lower-case string sorts first
RECURSIVE CompareCase(_, _, _)
CompareCase(a, b, i) ==
  IF i > Len(a) \/ i > Len(b) THEN 0
  ELSE IF IsLower(a[i]) /\ IsUpper(b[i]) THEN -1
  ELSE IF IsUpper(a[i]) /\ IsLower(b[i]) THEN 1
  ELSE CompareCase(a, b, i + 1)

\* a.localeCompare(b)
LocaleCompare(a, b) ==
  LET p == CompareElements(CollationElements(a, 1, FALSE), CollationElements(b, 1, FALSE), 1)
  IN  IF p # 0 THEN p ELSE CompareCase(a, b, 1)

\* a.localeCompare(b, undefined, { numeric: true, sensitivity: 'base' })
LocaleCompareNumeric(a, b) ==
  CompareElements(CollationElements(a, 1, TRUE), CollationElements(b, 1, TRUE), 1)

\* Array.prototype.sort with comparator cmp.  The sort is stable: an element
\* is placed after every element that compares less and after every earlier
\* element that compares equal.
SortBy(s, cmp(_, _)) ==
  LET pos(i) == 1 + Cardinality({j \in DOMAIN s :
                      \/ cmp(s[j], s[i]) < 0
                      \/ (cmp(s[j], s[i]) = 0 /\ j < i)})
  IN  [k \in DOMAIN s |-> s[CHOOSE i \in DOMAIN s : pos(i) = k]]

\* ------------------------------------------------------------------------
\* Ruby Marshal 4.8 (dump of @hyrious/marshal, and the reader's load)
\* ------------------------------------------------------------------------

MARSHAL_MAJOR == 4
MARSHAL_MINOR == 8

\* Marshal's integer encoding, for the lengths that occur (0..255)
MarshalFixnum(n) ==
  IF n = 0 THEN <<0>>
  ELSE IF n < 123 THEN <<n + 5>>
  ELSE <<1, n>>

\* a string is dumped with its encoding instance variable: I " len bytes,
\* one ivar, the symbol :E (a back-reference ;0 once :E has been emitted), T
MarshalString(str, firstSymbol) ==
  <<73, 34>> \o MarshalFixnum(Len(str)) \o str \o <<6>>
     \o (IF firstSymbol THEN <<58, 6, 69>> ELSE <<59, 0>>) \o <<84>>

\* one [name, version, platform] entry; first: no string was dumped before it
MarshalSpec(spec, first) ==
  <<91>> \o MarshalFixnum(Len(spec))
     \o MarshalString(spec[1], first)
     \o MarshalString(spec[2], FALSE)
     \o MarshalString(spec[3], FALSE)

RECURSIVE MarshalSpecs(_, _)
MarshalSpecs(specs, i) ==
  IF i > Len(specs) THEN <<>>
  ELSE MarshalSpec(specs[i], i = 1) \o MarshalSpecs(specs, i + 1)

\* dump(specs) for an array of string triples
Dump(specs) ==
  <<MARSHAL_MAJOR, MARSHAL_MINOR, 91>> \o MarshalFixnum(Len(specs)) \o MarshalSpecs(specs, 1)

\* --- the reader ---------------------------------------------------------

\* results of the reader: ok, the value read, the position after it
Failed == [ok |-> FALSE, val |-> <<>>, next |-> 0]

LoadFixnum(b, i) ==
  IF i > Len(b) THEN Failed
  ELSE IF b[i] = 0 THEN [ok |-> TRUE, val |-> <<0>>, next |-> i + 1]
  ELSE IF b[i] = 1 THEN
          IF i + 1 > Len(b) THEN Failed
          ELSE [ok |-> TRUE, val |-> <<b[i + 1]>>, next |-> i + 2]
  ELSE IF b[i] > 5 /\ b[i] < 128 THEN [ok |-> TRUE, val |-> <<b[i] - 5>>, next |-> i + 1]
  ELSE Failed

\* the encoding ivar after a string: 06 then :E (3 bytes) or ;0 (2 bytes), T
LoadEncoding(b, i, symbolSeen) ==
  IF i + 3 <= Len(b) /\ b[i] = 6 /\ b[i + 1] = 59 /\ b[i + 2] = 0 /\ b[i + 3] = 84 /\ symbolSeen
    THEN [ok |-> TRUE, val |-> <<>>, next |-> i + 4]
  ELSE IF i + 4 <= Len(b) /\ b[i] = 6 /\ b[i + 1] = 58 /\ b[i + 2] = 6 /\ b[i + 3] = 69 /\ b[i + 4] = 84
    THEN [ok |-> TRUE, val |-> <<>>, next |-> i + 5]
  ELSE Failed

LoadString(b, i, symbolSeen) ==
  IF ~(i + 1 <= Len(b) /\ b[i] = 73 /\ b[i + 1] = 34) THEN Failed
  ELSE LET n == LoadFixnum(b, i + 2)
       IN  IF ~n.ok THEN Failed
           ELSE IF n.next + n.val[1] - 1 > Len(b) THEN Failed
           ELSE LET e == LoadEncoding(b, n.next + n.val[1], symbolSeen)
                IN  IF ~e.ok THEN Failed
                    ELSE [ok |-> TRUE,
                          val |-> SubSeq(b, n.next, n.next + n.val[1] - 1),
                          next |-> e.next]

LoadSpec(b, i, symbolSeen) ==
  IF ~(i + 1 <= Len(b) /\ b[i] = 91 /\ b[i + 1] = 8) THEN Failed
  ELSE LET s1 == LoadString(b, i + 2, symbolSeen)
       IN  IF ~s1.ok THEN Failed
           ELSE LET s2 == LoadString(b, s1.next, TRUE)
                IN  IF ~s2.ok THEN Failed
                    ELSE LET s3 == LoadString(b, s2.next, TRUE)
                         IN  IF ~s3.ok THEN Failed
                             ELSE [ok |-> TRUE,
                                   val |-> <<s1.val, s2.val, s3.val>>,
                                   next |-> s3.next]

RECURSIVE LoadSpecs(_, _, _, _)
LoadSpecs(b, i, n, symbolSeen) ==
  IF n = 0 THEN [ok |-> TRUE, val |-> <<>>, next |-> i]
  ELSE LET h == LoadSpec(b, i, symbolSeen)
       IN  IF ~h.ok THEN Failed
           ELSE LET t == LoadSpecs(b, h.next, n - 1, TRUE)
                IN  IF ~t.ok THEN Failed
                    ELSE [ok |-> TRUE, val |-> <<h.val>> \o t.val, next |-> t.next]

\* Marshal.load of an array of string triples; fails on anything else
Load(b) ==
  IF ~(Len(b) >= 4 /\ b[1] = MARSHAL_MAJOR /\ b[2] = MARSHAL_MINOR /\ b[3] = 91) THEN Failed
  ELSE LET n == LoadFixnum(b, 4)
       IN  IF ~n.ok THEN Failed
           ELSE LET r == LoadSpecs(b, n.next, n.val[1], FALSE)
                IN  IF r.ok /\ r.next = Len(b) + 1 THEN r ELSE Failed

\* ------------------------------------------------------------------------
\* gzip (CompressionStream('gzip')) and its reader
\* ------------------------------------------------------------------------

\* The gzip member: the ten header bytes (magic 1f 8b, method 8 = deflate),
\* the deflate stream, and the trailer.  The deflate stream carries the data
\* as one stored block and the trailer is reduced to the low byte of ISIZE.
GzipHeader == <<31, 139, 8, 0, 0, 0, 0, 0, 0, 3>>

\* variant: the header's MTIME field carries a clock value
Gzip_WithMtime(data) ==
  <<31, 139, 8, 0, started, 0, 0, 0, 0, 3>> \o data \o <<Len(data) % 256>>

Gzip(data) == GzipHeader \o data \o <<Len(data) % 256>>

Gunzip(b) ==
  IF Len(b) < Len(GzipHeader) + 1 THEN Failed
  ELSE IF SubSeq(b, 1, 3) # SubSeq(GzipHeader, 1, 3) THEN Failed
  ELSE LET data == SubSeq(b, Len(GzipHeader) + 1, Len(b) - 1)
       IN  IF b[Len(b)] = Len(data) % 256
           THEN [ok |-> TRUE, val |-> data, next |-> Len(b) + 1]
           ELSE Failed

\* the reader of a legacy index file: gunzip, then Marshal.load
ReadIndex(b) ==
  LET g == Gunzip(b)
  IN  IF g.ok THEN Load(g.val) ELSE Failed

\* ------------------------------------------------------------------------
\* Gem archives and metadata records
\* ------------------------------------------------------------------------

\* A gem file: its bytes and the gemspec (metadata.gz) packed inside it.
\* Re-uploads of foo 1.0.0 differ in platform and bytes.
GemFiles ==
  { [name |-> Foo, version |-> V100, platform |-> Ruby, dependencies |-> <<>>, bytes |-> <<1>>],
    [name |-> Foo, version |-> V100, platform |-> Java, dependencies |-> <<>>, bytes |-> <<2>>],
    [name |-> Foo, version |-> V200, platform |-> Ruby, dependencies |-> <<>>, bytes |-> <<3>>],
    [name |-> Bar, version |-> V100, platform |-> Ruby, dependencies |-> <<>>, bytes |-> <<4>>] }

\* no file in the form data
NoFile ==
  [name |-> <<>>, version |-> <<>>, platform |-> <<>>, dependencies |-> <<>>, bytes |-> <<>>]

\* hex digest of the archive bytes (two hex digits stand for the 64)
Sha256(bytes) == <<97 + (bytes[1] % 6), 48 + (bytes[1] % 10)>>

NoGem ==
  [name |-> <<>>, version |-> <<>>, platform |-> <<>>, dependencies |-> <<>>,
   sha |-> <<>>, createdAt |-> 0, downloads |-> 0]

\* extractGemMetadata at clock value t: the fields of the packed gemspec,
\* platform defaulting to "ruby", the dependencies as an array of
\* { name, requirements }, plus the digest, createdAt: new Date() and a zero
\* download counter
ExtractGemMetadata(file, t) ==
  [name      |-> file.name,
   version   |-> file.version,
   platform  |-> IF file.platform = <<>> THEN Ruby ELSE file.platform,
   dependencies |-> file.dependencies,
   sha       |-> Sha256(file.bytes),
   createdAt |-> t,
   downloads |-> 0]

\* variant: the key is built from the name alone
GemKey_NameOnly(name, version) == GemPrefix \o name

\* `gem:${name}:${version}`
GemKey(name, version) == GemPrefix \o name \o <<58>> \o version

\* `gems/${name}-${version}.gem` (API upload)
ApiObjectKey(metadata) == GemsDir \o metadata.name \o <<45>> \o metadata.version \o GemExt

\* `${name}-${version}.gem` (web upload)
WebObjectKey(metadata) == metadata.name \o <<45>> \o metadata.version \o GemExt

\* ------------------------------------------------------------------------
\* The stores: put replaces the whole value of one key
\* ------------------------------------------------------------------------

StorePut(store, key, value) ==
  [k \in DOMAIN store \cup {key} |-> IF k = key THEN value ELSE store[k]]

EmptyStore == [k \in {} |-> <<>>]

\* kv.list({ prefix }): the names of the keys with the prefix, in key order
KvList(store, prefix) == SortedKeys({k \in DOMAIN store : IsPrefix(prefix, k)})

\* ------------------------------------------------------------------------
\* Index generation
\* ------------------------------------------------------------------------

\* the comparator of getAllGems: name ascending, version descending
GemCompare(a, b) ==
  IF a.name = b.name THEN LocaleCompareNumeric(b.version, a.version)
  ELSE LocaleCompare(a.name, b.name)

\* gems.sort(...) at the end of getAllGems
SortGems(gems) == SortBy(gems, GemCompare)

\* variant: the platform of the record is not read
SpecsOf_AlwaysRuby(gems) ==
  [i \in DOMAIN gems |-> <<gems[i].name, gems[i].version, Ruby>>]

\* gems.map(gem => [gem.name, gem.version, gem.platform || 'ruby'])
SpecsOf(gems) ==
  [i \in DOMAIN gems |->
     <<gems[i].name, gems[i].version,
       IF gems[i].platform = <<>> THEN Ruby ELSE gems[i].platform>>]

\* variant: only the first chunk read from the compression stream is kept
GzipResult_FirstChunk(gems) ==
  LET whole == Gzip(Dump(SpecsOf(gems)))
  IN  SubSeq(whole, 1, Len(whole) \div 2)

\* gzipResult of updateSpecsIndexInR2
GzipResult(gems) == Gzip(Dump(SpecsOf(gems)))

\* prereleaseResult of updateSpecsIndexInR2 and getSpecsIndexFromR2
PrereleaseResult == Gzip(Dump(<<>>))

\* generateValidSpecsGz: atob('eJzLSM3JyVcozy/KSQEAGgsEXQ==')
GenerateValidSpecsGz ==
  <<120, 156, 203, 72, 205, 201, 201, 87, 40, 207, 47, 202, 73, 1, 0, 26, 11, 4, 93>>

\* variant: latest_specs lists only the newest version of each name
PublishedValue_LatestFiltered(key, gems) ==
  IF key = PrereleaseSpecsKey THEN PrereleaseResult
  ELSE IF key = LatestSpecsKey
    THEN GzipResult(SelectSeq(gems, LAMBDA g :
           \A i \in DOMAIN gems :
              gems[i].name = g.name => LocaleCompareNumeric(gems[i].version, g.version) <= 0))
  ELSE GzipResult(gems)

\* what updateSpecsIndexInR2 puts under each index key
PublishedValue(key, gems) ==
  IF key = PrereleaseSpecsKey THEN PrereleaseResult ELSE GzipResult(gems)

\* defaultSpecs of getSpecsIndexFromR2
DefaultSpecs(filename) ==
  IF filename = PrereleaseSpecsKey THEN PrereleaseResult ELSE GenerateValidSpecsGz

\* ------------------------------------------------------------------------
\* Authentication
\* ------------------------------------------------------------------------

\* "admin", and the name of somebody else, "eve"
Admin == <<97, 100, 109, 105, 110>>
Eve == <<101, 118, 101>>

\* the administrator's password, and a wrong one
Secret == <<115, 51, 99, 114, 51, 116>>
Guess == <<103, 117, 101, 115, 115>>

\* hashPassword: the hex SHA-256 digest of the password
HashPassword(password) == IF password = <<>> THEN <<101, 51>> ELSE Sha256(password)

\* verifyPassword
VerifyPassword(password, hash) == HashPassword(password) = hash

\* c.env.ADMIN_USERNAME and c.env.ADMIN_PASSWORD_HASH
AdminUsername == Admin
AdminPasswordHash == HashPassword(Secret)

\* a request without an Authorization: Basic header
NoHeader == [basic |-> FALSE, username |-> <<>>, password |-> <<>>]

\* the Authorization headers that requests present
BasicCredentials ==
  {NoHeader} \cup
  {[basic |-> TRUE, username |-> u, password |-> p] : u \in {Admin, Eve}, p \in {Secret, Guess}}

\* the credential check of POST /api/v1/gems
BasicAuthorized(credentials) ==
  /\ credentials.basic
  /\ credentials.username = AdminUsername
  /\ VerifyPassword(credentials.password, AdminPasswordHash)

\* lifetime of a session in seconds
SessionTtl == 3600

\* a request without the auth_token cookie, and a cookie whose second part is
\* not base64 JSON
NoToken == [cookie |-> FALSE, parses |-> FALSE, username |-> <<>>, exp |-> 0]
Garbage == [cookie |-> TRUE, parses |-> FALSE, username |-> <<>>, exp |-> 0]

\* `header.${btoa(JSON.stringify({ username, isAdmin: true, exp }))}.signature`
Token(username, exp) == [cookie |-> TRUE, parses |-> TRUE, username |-> username, exp |-> exp]

\* the cookies that requests present: none, garbage, a token of the form
\* above that expired long ago, one written by the client itself with an
\* expiry in the future, and the tokens that POST /login has set
Cookies ==
  {NoToken, Garbage, Token(Admin, 0), Token(Eve, 2 * SessionTtl)} \cup sessions

\* jwtAuth at clock value t: next() is called unless the cookie is missing,
\* does not parse, or payload.exp < Date.now() / 1000
JwtAuth(token, t) ==
  token.cookie /\ token.parses /\ ~(token.exp < t)

\* Date.now(): the clock does not go back
Clock == {now, now + 1}

\* ------------------------------------------------------------------------
\* Requests
\* ------------------------------------------------------------------------

vars == <<kv, r2, req, started, faults, now, sessions, lastWriter>>

Requests == 1..MaxReq

\* a request that has not been issued
IdleRequest ==
  [kind      |-> "none",
   pc        |-> "idle",
   metadata  |-> NoGem,        \* const metadata = await extractGemMetadata(...)
   buffer    |-> <<>>,         \* const gemBuffer = await gemFile.arrayBuffer()
   keys      |-> <<>>,         \* list.keys not yet fetched by getAllGems
   gems      |-> <<>>,         \* gems of getAllGems, then allGems of the caller
   filename  |-> <<>>,         \* filename of getSpecsIndexFromR2
   gemName   |-> <<>>,         \* the name parameter of the route
   version   |-> <<>>,         \* the version taken from the file name
   presented |-> NoToken,      \* the Authorization header or auth_token cookie
   status    |-> 0,            \* HTTP status of the response
   result    |-> "none",       \* what the response reports
   body      |-> <<>>,         \* bytes served by an index route
   thrown    |-> FALSE,        \* updateSpecsIndexInR2 or getAllGems threw to the caller
   requested |-> <<>>,         \* requestedGems of GET /api/v1/dependencies
   cause     |-> "none",       \* history: "encode" when dump or the compression threw
   solo      |-> FALSE,        \* history: no other upload or publish overlapped
   fresh     |-> FALSE,        \* history: no saveGem since this request's kv.list
   listed    |-> {},           \* history: the keys in KV at this request's kv.list
   wrote     |-> EmptyStore]   \* history: what this request put under index keys

Active(rq) == rq.pc \notin {"idle", "done"}

IsWriterKind(kind) == kind \in {"api_upload", "web_upload", "legacy_upload", "update_specs"}

\* the response of a handler
Respond(rq, status, result) ==
  [rq EXCEPT !.pc = "done", !.status = status, !.result = result]

\* a new upload or publish r begins: it is solo if no other is running, and
\* the ones that are running are no longer solo
Begin(r, rq) ==
  [q \in Requests |->
     IF q = r
       THEN [rq EXCEPT !.solo = \A o \in Requests \ {r} :
                                   ~(Active(req[o]) /\ IsWriterKind(req[o].kind))]
     ELSE IF Active(req[q]) /\ IsWriterKind(req[q].kind)
       THEN [req[q] EXCEPT !.solo = FALSE]
     ELSE req[q]]

Init ==
  /\ kv = EmptyStore
  /\ r2 = EmptyStore
  /\ req = [r \in Requests |-> IdleRequest]
  /\ started = 0
  /\ faults = 0
  /\ now = 1
  /\ sessions = {}
  /\ lastWriter = [k \in IndexKeys |-> 0]

\* ------------------------------------------------------------------------
\* POST /api/v1/gems and POST /upload up to the metadata write
\* ------------------------------------------------------------------------

\* POST /api/v1/gems: the credential check, the form data, extractGemMetadata
ApiUploadStart(file, credentials, t) ==
  /\ started < MaxReq
  /\ started' = started + 1
  /\ now' = t
  /\ LET r  == started + 1
         rq == [IdleRequest EXCEPT !.kind = "api_upload", !.presented = credentials]
     IN  req' = IF ~BasicAuthorized(credentials)
                  THEN [req EXCEPT ![r] = Respond(rq, 401, "unauthorized")]
                ELSE IF file = NoFile THEN [req EXCEPT ![r] = Respond(rq, 400, "failure")]
                ELSE Begin(r, [rq EXCEPT !.pc = "put_gem",
                                         !.buffer = file.bytes,
                                         !.metadata = ExtractGemMetadata(file, t)])
  /\ UNCHANGED <<kv, r2, faults, lastWriter, sessions>>

\* POST /login: a token is set when the user name and the password are the
\* administrator's
LoginStart(username, password, t) ==
  /\ started < MaxReq
  /\ started' = started + 1
  /\ now' = t
  /\ LET r     == started + 1
         rq    == [IdleRequest EXCEPT !.kind = "login"]
         valid == username = AdminUsername /\ VerifyPassword(password, AdminPasswordHash)
     IN  /\ req' = [req EXCEPT ![r] = IF valid THEN Respond(rq, 302, "success")
                                      ELSE Respond(rq, 200, "failure")]
         /\ sessions' = IF valid THEN sessions \cup {Token(username, t + SessionTtl)}
                        ELSE sessions
  /\ UNCHANGED <<kv, r2, faults, lastWriter>>

\* POST /upload: jwtAuth, the form data, extractGemMetadata
WebUploadStart(file, token, t) ==
  /\ started < MaxReq
  /\ started' = started + 1
  /\ now' = t
  /\ LET r  == started + 1
         rq == [IdleRequest EXCEPT !.kind = "web_upload", !.presented = token]
     IN  req' = IF ~JwtAuth(token, t) THEN [req EXCEPT ![r] = Respond(rq, 302, "unauthorized")]
                ELSE IF file = NoFile THEN [req EXCEPT ![r] = Respond(rq, 200, "failure")]
                ELSE Begin(r, [rq EXCEPT !.pc = "put_gem",
                                         !.buffer = file.bytes,
                                         !.metadata = ExtractGemMetadata(file, t)])
  /\ UNCHANGED <<kv, r2, faults, lastWriter, sessions>>

\* the key under which the handler stores the archive
ObjectKey(rq) ==
  IF rq.kind = "api_upload" THEN ApiObjectKey(rq.metadata) ELSE WebObjectKey(rq.metadata)

\* await c.env.GEMFLARE_BUCKET.put(objectKey, gemBuffer) succeeds
PutGemFileOk(r) ==
  /\ req[r].pc = "put_gem"
  /\ r2' = StorePut(r2, ObjectKey(req[r]), req[r].buffer)
  /\ req' = [req EXCEPT ![r].pc = "save_gem"]
  /\ UNCHANGED <<kv, started, faults, lastWriter, now, sessions>>

\* ... or throws: the API answers 500 (so does the catch of the upload of
\* src/index.ts), the web form shows the error page
PutGemFileFail(r) ==
  /\ req[r].pc = "put_gem"
  /\ faults < MaxFaults
  /\ faults' = faults + 1
  /\ req' = [req EXCEPT ![r] =
               IF req[r].kind \in {"api_upload", "legacy_upload"}
                 THEN Respond(req[r], 500, "failure")
                 ELSE Respond(req[r], 200, "failure")]
  /\ UNCHANGED <<kv, r2, started, lastWriter, now, sessions>>

\* the handler after saveGem returned: the API upload goes on to publish the
\* index, the web upload redirects to /gems, the upload of src/index.ts
\* answers { success: true }
AfterSaveGem(rq) ==
  IF rq.kind = "api_upload" THEN [rq EXCEPT !.pc = "list"]
  ELSE IF rq.kind = "legacy_upload" THEN Respond(rq, 200, "success")
  ELSE Respond(rq, 302, "success")

\* saveGem: await kv.put(key, JSON.stringify(metadata)) succeeds
SaveGemOk(r) ==
  /\ req[r].pc = "save_gem"
  /\ kv' = StorePut(kv, GemKey(req[r].metadata.name, req[r].metadata.version), req[r].metadata)
  /\ req' = [q \in Requests |->
               IF q = r THEN AfterSaveGem(req[r])
               ELSE [req[q] EXCEPT !.fresh = FALSE]]
  /\ UNCHANGED <<r2, started, faults, lastWriter, now, sessions>>

\* ... or throws: saveGem rethrows, the handler's outer catch answers
SaveGemFail(r) ==
  /\ req[r].pc = "save_gem"
  /\ faults < MaxFaults
  /\ faults' = faults + 1
  /\ req' = [req EXCEPT ![r] =
               IF req[r].kind \in {"api_upload", "legacy_upload"}
                 THEN Respond(req[r], 500, "failure")
                 ELSE Respond(req[r], 200, "failure")]
  /\ UNCHANGED <<kv, r2, started, lastWriter, now, sessions>>

\* ------------------------------------------------------------------------
\* Publishing the legacy index: getAllGems, then updateSpecsIndexInR2
\* ------------------------------------------------------------------------

\* GET /admin/update-specs: jwtAuth, then getAllGems
UpdateSpecsStart(token, t) ==
  /\ started < MaxReq
  /\ started' = started + 1
  /\ now' = t
  /\ LET r  == started + 1
         rq == [IdleRequest EXCEPT !.kind = "update_specs", !.presented = token]
     IN  req' = IF ~JwtAuth(token, t) THEN [req EXCEPT ![r] = Respond(rq, 302, "unauthorized")]
                ELSE Begin(r, [rq EXCEPT !.pc = "list"])
  /\ UNCHANGED <<kv, r2, faults, lastWriter, sessions>>

\* --- dump of nested values, and its reader -------------------------------

\* a JavaScript string, array and plain object as Marshal sees them; the
\* object is the sequence key, value, key, value, ...
Str(s) == [t |-> "s", v |-> s]
Arr(xs) == [t |-> "a", v |-> xs]
Obj(kvs) == [t |-> "h", v |-> kvs]

\* dump writes a string as in MarshalString, an array as [ count elements,
\* a plain object as { count (key value)*, its keys as strings; the first
\* string of the whole dump carries the symbol :E, the later ones ;0
RECURSIVE MarshalValue(_, _), MarshalValues(_, _)
MarshalValue(x, seen) ==
  IF x.t = "s" THEN [bytes |-> MarshalString(x.v, ~seen), seen |-> TRUE]
  ELSE LET rest == MarshalValues(x.v, seen)
       IN  IF x.t = "a"
             THEN [bytes |-> <<91>> \o MarshalFixnum(Len(x.v)) \o rest.bytes, seen |-> rest.seen]
             ELSE [bytes |-> <<123>> \o MarshalFixnum(Len(x.v) \div 2) \o rest.bytes,
                   seen |-> rest.seen]

MarshalValues(xs, seen) ==
  IF xs = <<>> THEN [bytes |-> <<>>, seen |-> seen]
  ELSE LET h == MarshalValue(Head(xs), seen)
           t == MarshalValues(Tail(xs), h.seen)
       IN  [bytes |-> h.bytes \o t.bytes, seen |-> t.seen]

\* dump(value)
DumpValue(x) == <<MARSHAL_MAJOR, MARSHAL_MINOR>> \o MarshalValue(x, FALSE).bytes

FailedValue == [ok |-> FALSE, val |-> Str(<<>>), next |-> 0, seen |-> FALSE]

RECURSIVE LoadValue(_, _, _), LoadValues(_, _, _, _)
LoadValue(b, i, seen) ==
  IF i > Len(b) THEN FailedValue
  ELSE IF b[i] = 73 THEN
    LET str == LoadString(b, i, seen)
    IN  IF str.ok THEN [ok |-> TRUE, val |-> Str(str.val), next |-> str.next, seen |-> TRUE]
        ELSE FailedValue
  ELSE IF b[i] \in {91, 123} THEN
    LET n == LoadFixnum(b, i + 1)
    IN  IF ~n.ok THEN FailedValue
        ELSE LET count == IF b[i] = 91 THEN n.val[1] ELSE 2 * n.val[1]
                 rest  == LoadValues(b, n.next, count, seen)
             IN  IF ~rest.ok THEN FailedValue
                 ELSE [ok |-> TRUE,
                       val |-> IF b[i] = 91 THEN Arr(rest.val) ELSE Obj(rest.val),
                       next |-> rest.next, seen |-> rest.seen]
  ELSE FailedValue

LoadValues(b, i, n, seen) ==
  IF n = 0 THEN [ok |-> TRUE, val |-> <<>>, next |-> i, seen |-> seen]
  ELSE LET h == LoadValue(b, i, seen)
       IN  IF ~h.ok THEN [ok |-> FALSE, val |-> <<>>, next |-> 0, seen |-> FALSE]
           ELSE LET t == LoadValues(b, h.next, n - 1, h.seen)
                IN  IF ~t.ok THEN t
                    ELSE [ok |-> TRUE, val |-> <<h.val>> \o t.val, next |-> t.next,
                          seen |-> t.seen]

\* Marshal.load of strings, arrays and hashes; fails on anything else
LoadAny(b) ==
  IF ~(Len(b) >= 3 /\ b[1] = MARSHAL_MAJOR /\ b[2] = MARSHAL_MINOR) THEN FailedValue
  ELSE LET x == LoadValue(b, 3, FALSE)
       IN  IF x.ok /\ x.next = Len(b) + 1 THEN x ELSE FailedValue

\* --- generateDependenciesResponse ----------------------------------------

\* "name", "number", "platform", "dependencies", ">= 0"
KeyName == <<110, 97, 109, 101>>
KeyNumber == <<110, 117, 109, 98, 101, 114>>
KeyPlatform == <<112, 108, 97, 116, 102, 111, 114, 109>>
KeyDependencies == <<100, 101, 112, 101, 110, 100, 101, 110, 99, 105, 101, 115>>
DefaultRequirement == <<62, 61, 32, 48>>

\* (gem.dependencies || []).map(dep => [dep.name, dep.requirements || ">= 0"])
FormattedDependencies(gem) ==
  [i \in DOMAIN gem.dependencies |->
     Arr(<<Str(gem.dependencies[i].name),
           Str(IF gem.dependencies[i].requirements = <<>> THEN DefaultRequirement
               ELSE gem.dependencies[i].requirements)>>)]

\* { name, number, platform, dependencies } of one record
DependenciesEntry(gem) ==
  Obj(<<Str(KeyName), Str(gem.name),
        Str(KeyNumber), Str(gem.version),
        Str(KeyPlatform), Str(IF gem.platform = <<>> THEN Ruby ELSE gem.platform),
        Str(KeyDependencies), Arr(FormattedDependencies(gem))>>)

\* gems.filter(gem => requestedGems.includes(gem.name))
FilterGems(gems, requestedGems) ==
  SelectSeq(gems, LAMBDA gem : gem.name \in Range(requestedGems))

\* generateDependenciesResponse: dump of the entries of the filtered gems
GenerateDependenciesResponse(gems, requestedGems) ==
  LET filteredGems == FilterGems(gems, requestedGems)
  IN  DumpValue(Arr([i \in DOMAIN filteredGems |-> DependenciesEntry(filteredGems[i])]))

\* the response of GET /api/v1/dependencies with the dependencies data
DependenciesReturn(rq) ==
  [Respond(rq, 200, "success") EXCEPT
     !.body = GenerateDependenciesResponse(rq.gems, rq.requested)]

\* generateSpecsGz returns bytes to its caller
GenerateSpecsReturn(rq, bytes) ==
  [rq EXCEPT !.pc = "done", !.result = "returned", !.body = bytes]

\* the catch of generateSpecsGz: return await generateValidSpecsGz()
GenerateSpecsCatch(rq) == GenerateSpecsReturn(rq, GenerateValidSpecsGz)

\* variant: the upload has no inner catch, its outer catch answers 500
AfterPublish_FailUpload(rq) ==
  IF rq.thrown THEN Respond(rq, 500, "failure")
  ELSE Respond(rq, 200, "success")

\* the caller of getAllGems and updateSpecsIndexInR2 once they returned or
\* threw: the upload's inner catch only logs and the upload answers success;
\* /admin/update-specs answers success, or 500 from its catch; an error that
\* GET /api/v1/gems does not catch is answered with 500; generateSpecsGz
\* catches the error of its getAllGems
AfterPublish(rq) ==
  IF rq.kind = "api_upload" THEN Respond(rq, 200, "success")
  ELSE IF rq.kind = "generate_specs" THEN GenerateSpecsCatch(rq)
  ELSE IF rq.thrown THEN Respond(rq, 500, "failure")
  ELSE Respond(rq, 200, "success")

\* getAllGems has all its records: sort them; GET /api/v1/gems answers with
\* the list, generateSpecsGz goes on to dump and compress, the other
\* callers run updateSpecsIndexInR2 up to its first r2.put
GetAllGemsReturn(rq) ==
  IF rq.kind = "list_gems"
    THEN Respond([rq EXCEPT !.gems = SortGems(rq.gems)], 200, "success")
  ELSE IF rq.kind = "generate_specs"
    THEN [rq EXCEPT !.gems = SortGems(rq.gems), !.pc = "encode"]
  ELSE IF rq.kind = "dependencies"
    THEN DependenciesReturn([rq EXCEPT !.gems = SortGems(rq.gems)])
    ELSE [rq EXCEPT !.gems = SortGems(rq.gems), !.pc = "put_specs"]

\* getAllGems: await kv.list({ prefix: 'gem:' }) succeeds
GetAllGemsListOk(r) ==
  /\ req[r].pc = "list"
  /\ LET keys == KvList(kv, GemPrefix)
         rq   == [req[r] EXCEPT !.keys = keys, !.gems = <<>>,
                                !.listed = DOMAIN kv, !.fresh = TRUE]
     IN  req' = [req EXCEPT ![r] =
                   IF keys = <<>> THEN GetAllGemsReturn(rq) ELSE [rq EXCEPT !.pc = "get"]]
  /\ UNCHANGED <<kv, r2, started, faults, lastWriter, now, sessions>>

\* the loop body of getAllGems after kv.get(key.name, 'json') returned
\* gemData: a record is pushed, a null is skipped
GetAllGemsPush(rq, gemData) ==
  LET pushed == IF gemData # NoGem THEN Append(rq.gems, gemData) ELSE rq.gems
      next   == [rq EXCEPT !.gems = pushed, !.keys = Tail(rq.keys)]
  IN  IF next.keys = <<>> THEN GetAllGemsReturn(next) ELSE next

\* getAllGems: await kv.get(key.name, 'json') succeeds
GetAllGemsGetOk(r) ==
  /\ req[r].pc = "get"
  /\ LET key     == Head(req[r].keys)
         gemData == IF key \in DOMAIN kv THEN kv[key] ELSE NoGem
     IN  req' = [req EXCEPT ![r] = GetAllGemsPush(req[r], gemData)]
  /\ UNCHANGED <<kv, r2, started, faults, lastWriter, now, sessions>>

\* variant: a failing kv.get is caught inside the loop and the key skipped
GetAllGemsError_SkipKey(rq) ==
  IF rq.pc = "get" THEN GetAllGemsPush(rq, NoGem)
  ELSE [rq EXCEPT !.thrown = TRUE, !.gems = <<>>, !.keys = <<>>]

\* getAllGems has no catch: a failing kv.list or kv.get rejects its promise
GetAllGemsError(rq) == [rq EXCEPT !.thrown = TRUE, !.gems = <<>>, !.keys = <<>>]

\* getAllGems: kv.list or kv.get throws
GetAllGemsFail(r) ==
  /\ req[r].pc \in {"list", "get"}
  /\ faults < MaxFaults
  /\ faults' = faults + 1
  /\ LET rq == GetAllGemsError(req[r])
     IN  req' = [req EXCEPT ![r] = IF rq.thrown THEN AfterPublish(rq) ELSE rq]
  /\ UNCHANGED <<kv, r2, started, lastWriter, now, sessions>>

\* the index key written at each position of updateSpecsIndexInR2
PutKey(pc) ==
  IF pc = "put_specs" THEN SpecsKey
  ELSE IF pc = "put_latest" THEN LatestSpecsKey
  ELSE PrereleaseSpecsKey

\* updateSpecsIndexInR2 after a put returned
AfterPut(rq) ==
  IF rq.pc = "put_specs" THEN [rq EXCEPT !.pc = "put_latest"]
  ELSE IF rq.pc = "put_latest" THEN [rq EXCEPT !.pc = "put_prerelease"]
  ELSE AfterPublish(rq)

\* updateSpecsIndexInR2: await r2.put(<index key>, ...) succeeds
UpdateSpecsPutOk(r) ==
  /\ req[r].pc \in {"put_specs", "put_latest", "put_prerelease"}
  /\ LET key   == PutKey(req[r].pc)
         value == PublishedValue(key, req[r].gems)
     IN  /\ r2' = StorePut(r2, key, value)
         /\ lastWriter' = [lastWriter EXCEPT ![key] = r]
         /\ req' = [req EXCEPT ![r] =
                      AfterPut([req[r] EXCEPT !.wrote = StorePut(req[r].wrote, key, value)])]
  /\ UNCHANGED <<kv, started, faults, now, sessions>>

\* variant: the catch logs the error and does not throw it again
UpdateSpecsIndexCatch_Swallow(rq) == rq

\* the catch of updateSpecsIndexInR2: log, then throw the error again
UpdateSpecsIndexCatch(rq) == [rq EXCEPT !.thrown = TRUE]

\* updateSpecsIndexInR2: await r2.put(<index key>, ...) throws
UpdateSpecsPutFail(r) ==
  /\ req[r].pc \in {"put_specs", "put_latest", "put_prerelease"}
  /\ faults < MaxFaults
  /\ faults' = faults + 1
  /\ LET rq == UpdateSpecsIndexCatch(req[r])
     IN  req' = [req EXCEPT ![r] = IF rq.thrown THEN AfterPublish(rq) ELSE AfterPut(rq)]
  /\ UNCHANGED <<kv, r2, started, lastWriter, now, sessions>>

\* ------------------------------------------------------------------------
\* Serving the legacy index: getSpecsIndexFromR2
\* ------------------------------------------------------------------------

\* GET /specs.4.8.gz, /latest_specs.4.8.gz, /prerelease_specs.4.8.gz
GetSpecsStart(filename) ==
  /\ started < MaxReq
  /\ started' = started + 1
  /\ req' = [req EXCEPT ![started + 1] =
               [IdleRequest EXCEPT !.kind = "get_specs", !.pc = "r2_get",
                                   !.filename = filename]]
  /\ UNCHANGED <<kv, r2, faults, lastWriter, now, sessions>>

\* the route's response with the bytes getSpecsIndexFromR2 returned
ServeSpecs(rq, bytes) == [Respond(rq, 200, "success") EXCEPT !.body = bytes]

\* getSpecsIndexFromR2: await r2.get(filename) succeeds; the object is
\* returned if there is one, otherwise the default is generated
GetSpecsGetOk(r) ==
  /\ req[r].pc = "r2_get"
  /\ req' = [req EXCEPT ![r] =
               IF req[r].filename \in DOMAIN r2
                 THEN ServeSpecs(req[r], r2[req[r].filename])
                 ELSE [req[r] EXCEPT !.pc = "r2_put"]]
  /\ UNCHANGED <<kv, r2, started, faults, lastWriter, now, sessions>>

\* getSpecsIndexFromR2: await r2.put(filename, defaultSpecs) succeeds
GetSpecsPutOk(r) ==
  /\ req[r].pc = "r2_put"
  /\ r2' = StorePut(r2, req[r].filename, DefaultSpecs(req[r].filename))
  /\ lastWriter' = [lastWriter EXCEPT ![req[r].filename] = r]
  /\ req' = [req EXCEPT ![r] = ServeSpecs(req[r], DefaultSpecs(req[r].filename))]
  /\ UNCHANGED <<kv, started, faults, now, sessions>>

\* the catch of getSpecsIndexFromR2: return await generateValidSpecsGz()
GetSpecsCatch(rq) == ServeSpecs(rq, GenerateValidSpecsGz)

\* getSpecsIndexFromR2: r2.get or r2.put throws
GetSpecsFail(r) ==
  /\ req[r].pc \in {"r2_get", "r2_put"}
  /\ faults < MaxFaults
  /\ faults' = faults + 1
  /\ req' = [req EXCEPT ![r] = GetSpecsCatch(req[r])]
  /\ UNCHANGED <<kv, r2, started, lastWriter, now, sessions>>

\* ------------------------------------------------------------------------
\* GET /gems/:file: download of a gem archive
\* ------------------------------------------------------------------------

EndsWith(s, suffix) ==
  Len(suffix) <= Len(s) /\ SubSeq(s, Len(s) - Len(suffix) + 1, Len(s)) = suffix

\* the file names that clients ask for: `${name}-${version}.gem` of the gem
\* files, and a name without the extension
FileNames == {WebObjectKey(file) : file \in GemFiles} \cup {Foo}

\* GET /gems/:file up to the read of the bucket
DownloadStart(filename) ==
  /\ started < MaxReq
  /\ started' = started + 1
  /\ LET rq == [IdleRequest EXCEPT !.kind = "download", !.filename = filename]
     IN  req' = [req EXCEPT ![started + 1] =
                   IF ~EndsWith(filename, GemExt) THEN Respond(rq, 404, "not_found")
                   ELSE [rq EXCEPT !.pc = "dl_get"]]
  /\ UNCHANGED <<kv, r2, faults, lastWriter, now, sessions>>

\* the key the download reads: `gems/${filename}`
DownloadKey(filename) == GemsDir \o filename

\* await c.env.GEMFLARE_BUCKET.get(`gems/${filename}`) succeeds: the object's
\* body is served, or notFound when there is no object
DownloadGetOk(r) ==
  /\ req[r].pc = "dl_get"
  /\ LET key == DownloadKey(req[r].filename)
     IN  req' = [req EXCEPT ![r] =
                   IF key \in DOMAIN r2
                     THEN [Respond(req[r], 200, "success") EXCEPT !.body = r2[key]]
                     ELSE Respond(req[r], 404, "not_found")]
  /\ UNCHANGED <<kv, r2, started, faults, lastWriter, now, sessions>>

\* ... or throws: the catch answers 500
DownloadFail(r) ==
  /\ req[r].pc = "dl_get"
  /\ faults < MaxFaults
  /\ faults' = faults + 1
  /\ req' = [req EXCEPT ![r] = Respond(req[r], 500, "failure")]
  /\ UNCHANGED <<kv, r2, started, lastWriter, now, sessions>>

\* ------------------------------------------------------------------------
\* Compact index: GET /info/:name and GET /names
\* ------------------------------------------------------------------------

\* `gem:${gemName}:`
NamePrefix(gemName) == GemPrefix \o gemName \o <<58>>

\* String(value) of a { name, requirements } object: "[object Object]"
ObjectObject == <<91, 111, 98, 106, 101, 99, 116, 32, 79, 98, 106, 101, 99, 116, 93>>

\* Object.entries(gem.dependencies).map(([name, version]) => `${name}:${version}`)
\* .join(','): the entries of the array are its indices and its elements
RECURSIVE InfoDeps(_, _)
InfoDeps(dependencies, i) ==
  IF i > Len(dependencies) THEN <<>>
  ELSE (IF i > 1 THEN <<44>> ELSE <<>>)
         \o <<48 + (i - 1)>> \o <<58>> \o ObjectObject
         \o InfoDeps(dependencies, i + 1)

\* `${gem.version},${gem.sha},${gem.platform || 'ruby'},${deps}\n`
InfoLine(gem) ==
  gem.version \o <<44>> \o gem.sha \o <<44>>
    \o (IF gem.platform = <<>> THEN Ruby ELSE gem.platform) \o <<44>>
    \o InfoDeps(gem.dependencies, 1) \o <<10>>

RECURSIVE InfoLines(_)
InfoLines(versions) ==
  IF versions = <<>> THEN <<>> ELSE InfoLine(Head(versions)) \o InfoLines(Tail(versions))

\* the comparator of generateInfoContent: version ascending
InfoCompare(a, b) == LocaleCompareNumeric(a.version, b.version)

\* variant: a name without records is answered with 404
InfoReturn_NotFound(rq) ==
  IF rq.gems = <<>> THEN Respond(rq, 404, "not_found")
  ELSE [Respond(rq, 200, "success") EXCEPT !.body = InfoLines(SortBy(rq.gems, InfoCompare))]

\* generateInfoContent once it has all its records, and the route's response
InfoReturn(rq) ==
  [Respond(rq, 200, "success") EXCEPT !.body = InfoLines(SortBy(rq.gems, InfoCompare))]

\* GET /info/:name
InfoStart(gemName) ==
  /\ started < MaxReq
  /\ started' = started + 1
  /\ req' = [req EXCEPT ![started + 1] =
               [IdleRequest EXCEPT !.kind = "info", !.pc = "info_list", !.gemName = gemName]]
  /\ UNCHANGED <<kv, r2, faults, lastWriter, now, sessions>>

\* generateInfoContent: await kv.list({ prefix: `gem:${gemName}:` }) succeeds
InfoListOk(r) ==
  /\ req[r].pc = "info_list"
  /\ LET keys == KvList(kv, NamePrefix(req[r].gemName))
         rq   == [req[r] EXCEPT !.keys = keys, !.gems = <<>>]
     IN  req' = [req EXCEPT ![r] =
                   IF keys = <<>> THEN InfoReturn(rq) ELSE [rq EXCEPT !.pc = "info_get"]]
  /\ UNCHANGED <<kv, r2, started, faults, lastWriter, now, sessions>>

\* generateInfoContent: await kv.get(key.name, 'json') succeeds
InfoGetOk(r) ==
  /\ req[r].pc = "info_get"
  /\ LET key     == Head(req[r].keys)
         gemData == IF key \in DOMAIN kv THEN kv[key] ELSE NoGem
         pushed  == IF gemData # NoGem THEN Append(req[r].gems, gemData) ELSE req[r].gems
         next    == [req[r] EXCEPT !.gems = pushed, !.keys = Tail(req[r].keys)]
     IN  req' = [req EXCEPT ![r] = IF next.keys = <<>> THEN InfoReturn(next) ELSE next]
  /\ UNCHANGED <<kv, r2, started, faults, lastWriter, now, sessions>>

\* the catch of GET /info/:name: new Response('Not Found', { status: 404 })
InfoCatch(rq) == Respond([rq EXCEPT !.gems = <<>>, !.keys = <<>>], 404, "not_found")

\* generateInfoContent: kv.list or kv.get throws
InfoFail(r) ==
  /\ req[r].pc \in {"info_list", "info_get"}
  /\ faults < MaxFaults
  /\ faults' = faults + 1
  /\ req' = [req EXCEPT ![r] = InfoCatch(req[r])]
  /\ UNCHANGED <<kv, r2, started, lastWriter, now, sessions>>

\* key.name.split(':')[1]: what stands between the first and the second colon
RECURSIVE UpToColon(_)
UpToColon(s) ==
  IF s = <<>> \/ Head(s) = 58 THEN <<>> ELSE <<Head(s)>> \o UpToColon(Tail(s))

NamePart(key) ==
  LET first == UpToColon(key)
  IN  UpToColon(SubSeq(key, Len(first) + 2, Len(key)))

RECURSIVE JoinLines(_)
JoinLines(names) ==
  IF names = <<>> THEN <<>>
  ELSE IF Len(names) = 1 THEN names[1]
  ELSE names[1] \o <<10>> \o JoinLines(Tail(names))

\* variant: the names are not collected in a Set, one line per key
NamesContent_PerKey(keys) == JoinLines([i \in DOMAIN keys |-> NamePart(keys[i])])

\* Array.from(gemNames).sort().join("\n")
NamesContent(keys) == JoinLines(SortedKeys({NamePart(k) : k \in Range(keys)}))

\* GET /names
NamesStart ==
  /\ started < MaxReq
  /\ started' = started + 1
  /\ req' = [req EXCEPT ![started + 1] =
               [IdleRequest EXCEPT !.kind = "names", !.pc = "names_list"]]
  /\ UNCHANGED <<kv, r2, faults, lastWriter, now, sessions>>

\* generateNamesContent: await kv.list({ prefix: 'gem:' }) succeeds
NamesListOk(r) ==
  /\ req[r].pc = "names_list"
  /\ req' = [req EXCEPT ![r] =
               [Respond(req[r], 200, "success") EXCEPT
                  !.body = NamesContent(KvList(kv, GemPrefix))]]
  /\ UNCHANGED <<kv, r2, started, faults, lastWriter, now, sessions>>

\* ... or throws: the catch of GET /names answers 500
NamesFail(r) ==
  /\ req[r].pc = "names_list"
  /\ faults < MaxFaults
  /\ faults' = faults + 1
  /\ req' = [req EXCEPT ![r] = Respond(req[r], 500, "failure")]
  /\ UNCHANGED <<kv, r2, started, lastWriter, now, sessions>>

\* ------------------------------------------------------------------------
\* GET /api/v1/gems and GET /api/v1/gems/:name
\* ------------------------------------------------------------------------

\* "1.2", "1.10", "1.a", "1.B", "1.b2", "1.b10"
V12 == <<49, 46, 50>>
V110 == <<49, 46, 49, 48>>
V1a == <<49, 46, 97>>
V1B == <<49, 46, 66>>
V1b2 == <<49, 46, 98, 50>>
V1b10 == <<49, 46, 98, 49, 48>>

\* gem files whose versions differ in a number, in a letter, in case, in a
\* number after a letter
VersionFiles ==
  { [name |-> Foo, version |-> V12,  platform |-> Ruby, dependencies |-> <<>>, bytes |-> <<5>>],
    [name |-> Foo, version |-> V110, platform |-> Ruby, dependencies |-> <<>>, bytes |-> <<6>>],
    [name |-> Foo, version |-> V1a,  platform |-> Ruby, dependencies |-> <<>>, bytes |-> <<7>>],
    [name |-> Foo, version |-> V1B,  platform |-> Ruby, dependencies |-> <<>>, bytes |-> <<8>>],
    [name |-> Foo, version |-> V1b2, platform |-> Ruby, dependencies |-> <<>>, bytes |-> <<10>>],
    [name |-> Foo, version |-> V1b10, platform |-> Ruby, dependencies |-> <<>>, bytes |-> <<11>>],
    [name |-> Bar, version |-> V12,  platform |-> Ruby, dependencies |-> <<>>, bytes |-> <<9>>] }

\* GET /api/v1/gems: getAllGems, c.json(gems)
ListGemsStart ==
  /\ started < MaxReq
  /\ started' = started + 1
  /\ req' = [req EXCEPT ![started + 1] =
               [IdleRequest EXCEPT !.kind = "list_gems", !.pc = "list"]]
  /\ UNCHANGED <<kv, r2, faults, lastWriter, now, sessions>>

\* the comparator of getGem: version descending
GetGemCompare(a, b) == LocaleCompareNumeric(b.version, a.version)

\* getGem once it has read its records: null when there is none, otherwise
\* the first after the sort; the route answers 404 or the record
GetGemReturn(rq) ==
  IF rq.gems = <<>> THEN Respond(rq, 404, "not_found")
  ELSE [Respond(rq, 200, "success") EXCEPT !.metadata = SortBy(rq.gems, GetGemCompare)[1]]

\* GET /api/v1/gems/:name
GetGemStart(gemName) ==
  /\ started < MaxReq
  /\ started' = started + 1
  /\ req' = [req EXCEPT ![started + 1] =
               [IdleRequest EXCEPT !.kind = "get_gem", !.pc = "gem_list", !.gemName = gemName]]
  /\ UNCHANGED <<kv, r2, faults, lastWriter, now, sessions>>

\* getGem: await kv.list({ prefix: `gem:${name}:` }) succeeds
GetGemListOk(r) ==
  /\ req[r].pc = "gem_list"
  /\ LET keys == KvList(kv, NamePrefix(req[r].gemName))
         rq   == [req[r] EXCEPT !.keys = keys, !.gems = <<>>,
                                !.listed = DOMAIN kv, !.fresh = TRUE]
     IN  req' = [req EXCEPT ![r] =
                   IF keys = <<>> THEN GetGemReturn(rq) ELSE [rq EXCEPT !.pc = "gem_get"]]
  /\ UNCHANGED <<kv, r2, started, faults, lastWriter, now, sessions>>

\* getGem: await kv.get(key.name, 'json') succeeds
GetGemGetOk(r) ==
  /\ req[r].pc = "gem_get"
  /\ LET key     == Head(req[r].keys)
         gemData == IF key \in DOMAIN kv THEN kv[key] ELSE NoGem
         pushed  == IF gemData # NoGem THEN Append(req[r].gems, gemData) ELSE req[r].gems
         next    == [req[r] EXCEPT !.gems = pushed, !.keys = Tail(req[r].keys)]
     IN  req' = [req EXCEPT ![r] = IF next.keys = <<>> THEN GetGemReturn(next) ELSE next]
  /\ UNCHANGED <<kv, r2, started, faults, lastWriter, now, sessions>>

\* getGem: kv.list or kv.get throws; the route does not catch, the
\* framework answers 500
GetGemFail(r) ==
  /\ req[r].pc \in {"gem_list", "gem_get"}
  /\ faults < MaxFaults
  /\ faults' = faults + 1
  /\ req' = [req EXCEPT ![r] = Respond([req[r] EXCEPT !.gems = <<>>, !.keys = <<>>], 500, "failure")]
  /\ UNCHANGED <<kv, r2, started, lastWriter, now, sessions>>

\* the stores after web uploads of the given files at clock value 1
SeedKv(files) ==
  [k \in {GemKey(f.name, f.version) : f \in files} |->
     ExtractGemMetadata(CHOOSE f \in files : GemKey(f.name, f.version) = k, 1)]

SeedR2(files) ==
  [k \in {WebObjectKey(f) : f \in files} |->
     (CHOOSE f \in files : WebObjectKey(f) = k).bytes]

\* the lookups start after the administrator has logged in and up to two of
\* the files have been uploaded through the web form
LookupInit ==
  /\ \E files \in SUBSET VersionFiles :
        /\ Cardinality(files) <= 2
        /\ kv = SeedKv(files)
        /\ r2 = SeedR2(files)
  /\ req = [r \in Requests |-> IdleRequest]
  /\ started = 0
  /\ faults = 0
  /\ now = 1
  /\ sessions = {Token(Admin, 1 + SessionTtl)}
  /\ lastWriter = [k \in IndexKeys |-> 0]

LookupNext ==
  \/ \E file \in VersionFiles, token \in sessions, t \in Clock : WebUploadStart(file, token, t)
  \/ ListGemsStart
  \/ \E gemName \in {Foo, Bar} : GetGemStart(gemName)
  \/ \E r \in Requests : PutGemFileOk(r)
  \/ \E r \in Requests : SaveGemOk(r)
  \/ \E r \in Requests : GetAllGemsListOk(r)
  \/ \E r \in Requests : GetAllGemsGetOk(r)
  \/ \E r \in Requests : GetAllGemsFail(r)
  \/ \E r \in Requests : GetGemListOk(r)
  \/ \E r \in Requests : GetGemGetOk(r)
  \/ \E r \in Requests : GetGemFail(r)

LookupSpec == LookupInit /\ [][LookupNext]_vars

\* ------------------------------------------------------------------------
\* src/index.ts: POST /api/v1/gems behind basicAuth, and GET /gems/:file
\* with incrementDownloads
\* ------------------------------------------------------------------------

\* basicAuth: next() is called when the header carries the administrator's
\* name and password
BasicAuth(credentials) ==
  /\ credentials.basic
  /\ credentials.username = AdminUsername
  /\ VerifyPassword(credentials.password, AdminPasswordHash)

\* POST /api/v1/gems of src/index.ts: basicAuth, the form data,
\* extractGemMetadata
LegacyUploadStart(file, credentials, t) ==
  /\ started < MaxReq
  /\ started' = started + 1
  /\ now' = t
  /\ LET r  == started + 1
         rq == [IdleRequest EXCEPT !.kind = "legacy_upload", !.presented = credentials]
     IN  req' = IF ~BasicAuth(credentials)
                  THEN [req EXCEPT ![r] = Respond(rq, 401, "unauthorized")]
                ELSE IF file = NoFile THEN [req EXCEPT ![r] = Respond(rq, 400, "failure")]
                ELSE Begin(r, [rq EXCEPT !.pc = "put_gem",
                                         !.buffer = file.bytes,
                                         !.metadata = ExtractGemMetadata(file, t)])
  /\ UNCHANGED <<kv, r2, faults, lastWriter, sessions>>

\* position of the last "-" of s, 0 when there is none
LastDash(s) ==
  LET dashes == {i \in DOMAIN s : s[i] = 45}
  IN  IF dashes = {} THEN 0 ELSE CHOOSE i \in dashes : \A j \in dashes : j <= i

\* filename.match(/^(.+)-([^-]+)\.gem$/): the name before the last "-", the
\* version between it and ".gem"
MatchGemFile(filename) ==
  LET stem == SubSeq(filename, 1, Len(filename) - Len(GemExt))
      d    == LastDash(stem)
  IN  IF EndsWith(filename, GemExt) /\ d > 1 /\ d < Len(stem)
        THEN [ok |-> TRUE, name |-> SubSeq(stem, 1, d - 1),
              version |-> SubSeq(stem, d + 1, Len(stem))]
        ELSE [ok |-> FALSE, name |-> <<>>, version |-> <<>>]

\* GET /gems/:file of src/index.ts up to the read of the bucket
LegacyDownloadStart(filename) ==
  /\ started < MaxReq
  /\ started' = started + 1
  /\ LET match == MatchGemFile(filename)
         rq    == [IdleRequest EXCEPT !.kind = "legacy_download", !.filename = filename]
     IN  req' = [req EXCEPT ![started + 1] =
                   IF ~match.ok THEN Respond(rq, 400, "failure")
                   ELSE [rq EXCEPT !.pc = "ldl_get", !.gemName = match.name,
                                   !.version = match.version]]
  /\ UNCHANGED <<kv, r2, faults, lastWriter, now, sessions>>

\* await c.env.GEMFLARE_BUCKET.get(filename) succeeds: 404 when there is no
\* object, otherwise incrementDownloads is called
LegacyDownloadGetOk(r) ==
  /\ req[r].pc = "ldl_get"
  /\ req' = [req EXCEPT ![r] =
               IF req[r].filename \in DOMAIN r2
                 THEN [req[r] EXCEPT !.pc = "inc_get", !.buffer = r2[req[r].filename]]
                 ELSE Respond(req[r], 404, "not_found")]
  /\ UNCHANGED <<kv, r2, started, faults, lastWriter, now, sessions>>

\* the response with the object's body
ServeGem(rq) == [Respond(rq, 200, "success") EXCEPT !.body = rq.buffer]

\* gemData.downloads = (gemData.downloads || 0) + 1
Incremented(gemData) == [gemData EXCEPT !.downloads = gemData.downloads + 1]

\* incrementDownloads: await kv.get(key, 'json') succeeds; without a record
\* nothing is written
IncrementGetOk(r) ==
  /\ req[r].pc = "inc_get"
  /\ LET key == GemKey(req[r].gemName, req[r].version)
     IN  req' = [req EXCEPT ![r] =
                   IF key \in DOMAIN kv
                     THEN [req[r] EXCEPT !.pc = "inc_put", !.metadata = Incremented(kv[key])]
                     ELSE ServeGem(req[r])]
  /\ UNCHANGED <<kv, r2, started, faults, lastWriter, now, sessions>>

\* incrementDownloads: await kv.put(key, JSON.stringify(gemData)) succeeds;
\* the handler returns the file
IncrementPutOk(r) ==
  /\ req[r].pc = "inc_put"
  /\ kv' = StorePut(kv, GemKey(req[r].gemName, req[r].version), req[r].metadata)
  /\ req' = [q \in Requests |->
               IF q = r THEN ServeGem(req[r]) ELSE [req[q] EXCEPT !.fresh = FALSE]]
  /\ UNCHANGED <<r2, started, faults, lastWriter, now, sessions>>

\* the bucket read, kv.get or kv.put throws: the handler catches nothing and
\* the framework answers 500
LegacyDownloadFail(r) ==
  /\ req[r].pc \in {"ldl_get", "inc_get", "inc_put"}
  /\ faults < MaxFaults
  /\ faults' = faults + 1
  /\ req' = [req EXCEPT ![r] = Respond(req[r], 500, "failure")]
  /\ UNCHANGED <<kv, r2, started, lastWriter, now, sessions>>

\* the server of src/index.ts, empty or after one upload at clock value 1
LegacyInit ==
  /\ \E files \in SUBSET GemFiles :
        /\ Cardinality(files) <= 1
        /\ kv = SeedKv(files)
        /\ r2 = SeedR2(files)
  /\ req = [r \in Requests |-> IdleRequest]
  /\ started = 0
  /\ faults = 0
  /\ now = 1
  /\ sessions = {}
  /\ lastWriter = [k \in IndexKeys |-> 0]

LegacyNext ==
  \/ \E file \in GemFiles \cup {NoFile}, credentials \in BasicCredentials, t \in Clock :
        LegacyUploadStart(file, credentials, t)
  \/ \E filename \in FileNames : LegacyDownloadStart(filename)
  \/ \E r \in Requests : PutGemFileOk(r)
  \/ \E r \in Requests : PutGemFileFail(r)
  \/ \E r \in Requests : SaveGemOk(r)
  \/ \E r \in Requests : SaveGemFail(r)
  \/ \E r \in Requests : LegacyDownloadGetOk(r)
  \/ \E r \in Requests : IncrementGetOk(r)
  \/ \E r \in Requests : IncrementPutOk(r)
  \/ \E r \in Requests : LegacyDownloadFail(r)

LegacySpec == LegacyInit /\ [][LegacyNext]_vars

\* ------------------------------------------------------------------------
\* The index generators on a stored set of records (src/utils.ts and the
\* routes of src/unnamed/part_000 that call them)
\* ------------------------------------------------------------------------

\* "1.2.0", "1.3.0", "1.10.0", ">= 0", "Foo"
V120 == <<49, 46, 50, 46, 48>>
V130 == <<49, 46, 51, 46, 48>>
V1100 == <<49, 46, 49, 48, 46, 48>>
AnyVersion == <<62, 61, 32, 48>>
CapitalFoo == <<70, 111, 111>>

\* gem files: three versions of foo whose numeric and byte order differ, a
\* foo with the dependency (bar, ">= 0"), two versions that differ in case,
\* a bar, and a Foo
IndexFiles ==
  { [name |-> Foo, version |-> V120,  platform |-> Ruby, dependencies |-> <<>>, bytes |-> <<12>>],
    [name |-> Foo, version |-> V130,  platform |-> Ruby, dependencies |-> <<>>, bytes |-> <<13>>],
    [name |-> Foo, version |-> V1100, platform |-> Ruby, dependencies |-> <<>>, bytes |-> <<14>>],
    [name |-> Foo, version |-> V100,  platform |-> Ruby,
     dependencies |-> <<[name |-> Bar, requirements |-> AnyVersion]>>, bytes |-> <<15>>],
    [name |-> Foo, version |-> V1a,   platform |-> Ruby, dependencies |-> <<>>, bytes |-> <<16>>],
    [name |-> Foo, version |-> V1B,   platform |-> Java, dependencies |-> <<>>, bytes |-> <<17>>],
    [name |-> Bar, version |-> V100,  platform |-> Ruby, dependencies |-> <<>>, bytes |-> <<18>>],
    [name |-> CapitalFoo, version |-> V100, platform |-> Ruby, dependencies |-> <<>>, bytes |-> <<19>>] }

\* the names of the records in the order in which they first occur: the
\* keys of gemVersions
RECURSIVE FirstNames(_, _)
FirstNames(gems, seen) ==
  IF gems = <<>> THEN <<>>
  ELSE IF Head(gems).name \in seen THEN FirstNames(Tail(gems), seen)
  ELSE <<Head(gems).name>> \o FirstNames(Tail(gems), seen \cup {Head(gems).name})

\* gemVersions[name]: the versions pushed for the name
RECURSIVE VersionsPushed(_, _)
VersionsPushed(gems, name) ==
  IF gems = <<>> THEN <<>>
  ELSE (IF Head(gems).name = name THEN <<Head(gems).version>> ELSE <<>>)
         \o VersionsPushed(Tail(gems), name)

\* versions.join(',')
RECURSIVE JoinCommas(_)
JoinCommas(versions) ==
  IF versions = <<>> THEN <<>>
  ELSE IF Len(versions) = 1 THEN versions[1]
  ELSE versions[1] \o <<44>> \o JoinCommas(Tail(versions))

\* versions.sort((a, b) => a.localeCompare(b, undefined, { numeric: true, sensitivity: 'base' }))
SortVersions(versions) == SortBy(versions, LocaleCompareNumeric)

\* `${name} ${versions.join(',')}\n`
RECURSIVE VersionsLines(_, _)
VersionsLines(gems, names) ==
  IF names = <<>> THEN <<>>
  ELSE Head(names) \o <<32>> \o JoinCommas(SortVersions(VersionsPushed(gems, Head(names))))
         \o <<10>> \o VersionsLines(gems, Tail(names))

\* the content generateVersionsContent returns for the records it has read
VersionsContent(gems) == VersionsLines(gems, FirstNames(gems, {}))

\* GET /versions
VersionsStart ==
  /\ started < MaxReq
  /\ started' = started + 1
  /\ req' = [req EXCEPT ![started + 1] =
               [IdleRequest EXCEPT !.kind = "versions", !.pc = "versions_list"]]
  /\ UNCHANGED <<kv, r2, faults, lastWriter, now, sessions>>

\* generateVersionsContent has read all its records; the route's response
VersionsReturn(rq) ==
  [Respond(rq, 200, "success") EXCEPT !.body = VersionsContent(rq.gems)]

\* generateVersionsContent: await kv.list({ prefix: 'gem:' }) succeeds
VersionsListOk(r) ==
  /\ req[r].pc = "versions_list"
  /\ LET keys == KvList(kv, GemPrefix)
         rq   == [req[r] EXCEPT !.keys = keys, !.gems = <<>>]
     IN  req' = [req EXCEPT ![r] =
                   IF keys = <<>> THEN VersionsReturn(rq) ELSE [rq EXCEPT !.pc = "versions_get"]]
  /\ UNCHANGED <<kv, r2, started, faults, lastWriter, now, sessions>>

\* generateVersionsContent: await kv.get(key.name, 'json') succeeds
VersionsGetOk(r) ==
  /\ req[r].pc = "versions_get"
  /\ LET key     == Head(req[r].keys)
         gemData == IF key \in DOMAIN kv THEN kv[key] ELSE NoGem
         pushed  == IF gemData # NoGem THEN Append(req[r].gems, gemData) ELSE req[r].gems
         next    == [req[r] EXCEPT !.gems = pushed, !.keys = Tail(req[r].keys)]
     IN  req' = [req EXCEPT ![r] = IF next.keys = <<>> THEN VersionsReturn(next) ELSE next]
  /\ UNCHANGED <<kv, r2, started, faults, lastWriter, now, sessions>>

\* generateVersionsContent: kv.list or kv.get throws; the catch of
\* GET /versions answers 500
VersionsFail(r) ==
  /\ req[r].pc \in {"versions_list", "versions_get"}
  /\ faults < MaxFaults
  /\ faults' = faults + 1
  /\ req' = [req EXCEPT ![r] =
               Respond([req[r] EXCEPT !.gems = <<>>, !.keys = <<>>], 500, "failure")]
  /\ UNCHANGED <<kv, r2, started, lastWriter, now, sessions>>

\* "baz"
Baz == <<98, 97, 122>>

\* gem.trim()
RECURSIVE TrimLeft(_)
TrimLeft(s) == IF s # <<>> /\ Head(s) = 32 THEN TrimLeft(Tail(s)) ELSE s

RECURSIVE TrimRight(_)
TrimRight(s) ==
  IF s # <<>> /\ s[Len(s)] = 32 THEN TrimRight(SubSeq(s, 1, Len(s) - 1)) ELSE s

Trim(s) == TrimRight(TrimLeft(s))

RECURSIVE UpToComma(_)
UpToComma(s) ==
  IF s = <<>> \/ Head(s) = 44 THEN <<>> ELSE <<Head(s)>> \o UpToComma(Tail(s))

\* gemsParam.split(',').map(gem => gem.trim())
RECURSIVE SplitCommas(_)
SplitCommas(s) ==
  LET first == UpToComma(s)
  IN  IF Len(first) = Len(s) THEN <<Trim(first)>>
      ELSE <<Trim(first)>> \o SplitCommas(SubSeq(s, Len(first) + 2, Len(s)))

\* the gems parameters of the requests: none or empty, "foo", "foo,baz",
\* "baz", "foo, bar"
GemsParams ==
  {<<>>, Foo, Foo \o <<44>> \o Baz, Baz, Foo \o <<44, 32>> \o Bar}

\* GET /api/v1/dependencies: 400 when the gems parameter is missing or
\* empty, otherwise getAllGems
DependenciesStart(gemsParam) ==
  /\ started < MaxReq
  /\ started' = started + 1
  /\ LET rq == [IdleRequest EXCEPT !.kind = "dependencies"]
     IN  req' = [req EXCEPT ![started + 1] =
                   IF gemsParam = <<>> THEN Respond(rq, 400, "failure")
                   ELSE [rq EXCEPT !.pc = "list", !.requested = SplitCommas(gemsParam)]]
  /\ UNCHANGED <<kv, r2, faults, lastWriter, now, sessions>>

\* a call of generateSpecsGz(kv): it begins with getAllGems
GenerateSpecsStart ==
  /\ started < MaxReq
  /\ started' = started + 1
  /\ req' = [req EXCEPT ![started + 1] =
               [IdleRequest EXCEPT !.kind = "generate_specs", !.pc = "list"]]
  /\ UNCHANGED <<kv, r2, faults, lastWriter, now, sessions>>

\* generateSpecsGz: dump(specs) and the compression stream succeed
GenerateSpecsEncodeOk(r) ==
  /\ req[r].pc = "encode"
  /\ req' = [req EXCEPT ![r] = GenerateSpecsReturn(req[r], GzipResult(req[r].gems))]
  /\ UNCHANGED <<kv, r2, started, faults, lastWriter, now, sessions>>

\* generateSpecsGz: dump(specs) or the compression stream throws
GenerateSpecsEncodeFail(r) ==
  /\ req[r].pc = "encode"
  /\ faults < MaxFaults
  /\ faults' = faults + 1
  /\ req' = [req EXCEPT ![r] = GenerateSpecsCatch([req[r] EXCEPT !.cause = "encode"])]
  /\ UNCHANGED <<kv, r2, started, lastWriter, now, sessions>>

\* updateSpecsIndexInR2: dump or the compression stream throws, before the
\* put of specs.4.8.gz or before the put of prerelease_specs.4.8.gz; the
\* catch throws the error again
UpdateSpecsEncodeFail(r) ==
  /\ req[r].pc \in {"put_specs", "put_prerelease"}
  /\ faults < MaxFaults
  /\ faults' = faults + 1
  /\ req' = [req EXCEPT ![r] =
               AfterPublish(UpdateSpecsIndexCatch([req[r] EXCEPT !.cause = "encode"]))]
  /\ UNCHANGED <<kv, r2, started, lastWriter, now, sessions>>

\* the generators run after the administrator has logged in and up to three
\* of the files have been uploaded through the web form
IndexInit ==
  /\ \E files \in SUBSET IndexFiles :
        /\ Cardinality(files) <= 3
        /\ \A f \in files, g \in files : GemKey(f.name, f.version) = GemKey(g.name, g.version) => f = g
        /\ kv = SeedKv(files)
        /\ r2 = SeedR2(files)
  /\ req = [r \in Requests |-> IdleRequest]
  /\ started = 0
  /\ faults = 0
  /\ now = 1
  /\ sessions = {Token(Admin, 1 + SessionTtl)}
  /\ lastWriter = [k \in IndexKeys |-> 0]

\* the generators only read the metadata store, which no request of this
\* specification writes: the requests are taken one after the other
Sequential == \A r \in Requests : ~Active(req[r])

IndexNext ==
  \/ Sequential /\ GenerateSpecsStart
  \/ Sequential /\ \E gemsParam \in GemsParams : DependenciesStart(gemsParam)
  \/ Sequential /\ \E gemName \in {Foo, Bar, CapitalFoo} : InfoStart(gemName)
  \/ \E r \in Requests : InfoListOk(r)
  \/ \E r \in Requests : InfoGetOk(r)
  \/ \E r \in Requests : InfoFail(r)
  \/ Sequential /\ \E token \in sessions : UpdateSpecsStart(token, now)
  \/ Sequential /\ NamesStart
  \/ \E r \in Requests : NamesListOk(r)
  \/ \E r \in Requests : NamesFail(r)
  \/ Sequential /\ VersionsStart
  \/ \E r \in Requests : VersionsListOk(r)
  \/ \E r \in Requests : VersionsGetOk(r)
  \/ \E r \in Requests : VersionsFail(r)
  \/ \E r \in Requests : GetAllGemsListOk(r)
  \/ \E r \in Requests : GetAllGemsGetOk(r)
  \/ \E r \in Requests : GetAllGemsFail(r)
  \/ \E r \in Requests : GenerateSpecsEncodeOk(r)
  \/ \E r \in Requests : GenerateSpecsEncodeFail(r)
  \/ \E r \in Requests : UpdateSpecsPutOk(r)
  \/ \E r \in Requests : UpdateSpecsEncodeFail(r)

IndexSpec == IndexInit /\ [][IndexNext]_vars

\* ------------------------------------------------------------------------
\* Specification
\* ------------------------------------------------------------------------

Next ==
  \/ \E username \in {Admin, Eve}, password \in {Secret, Guess}, t \in Clock :
        LoginStart(username, password, t)
  \/ \E file \in GemFiles \cup {NoFile}, credentials \in BasicCredentials, t \in Clock :
        ApiUploadStart(file, credentials, t)
  \/ \E file \in GemFiles \cup {NoFile}, token \in Cookies, t \in Clock :
        WebUploadStart(file, token, t)
  \/ \E token \in Cookies, t \in Clock : UpdateSpecsStart(token, t)
  \/ \E filename \in IndexKeys : GetSpecsStart(filename)
  \/ \E filename \in FileNames : DownloadStart(filename)
  \/ \E gemName \in {Foo, Bar} : InfoStart(gemName)
  \/ NamesStart
  \/ \E r \in Requests : PutGemFileOk(r)
  \/ \E r \in Requests : PutGemFileFail(r)
  \/ \E r \in Requests : SaveGemOk(r)
  \/ \E r \in Requests : SaveGemFail(r)
  \/ \E r \in Requests : GetAllGemsListOk(r)
  \/ \E r \in Requests : GetAllGemsGetOk(r)
  \/ \E r \in Requests : GetAllGemsFail(r)
  \/ \E r \in Requests : UpdateSpecsPutOk(r)
  \/ \E r \in Requests : UpdateSpecsPutFail(r)
  \/ \E r \in Requests : GetSpecsGetOk(r)
  \/ \E r \in Requests : GetSpecsPutOk(r)
  \/ \E r \in Requests : GetSpecsFail(r)
  \/ \E r \in Requests : DownloadGetOk(r)
  \/ \E r \in Requests : DownloadFail(r)
  \/ \E r \in Requests : InfoListOk(r)
  \/ \E r \in Requests : InfoGetOk(r)
  \/ \E r \in Requests : InfoFail(r)
  \/ \E r \in Requests : NamesListOk(r)
  \/ \E r \in Requests : NamesFail(r)

Spec == Init /\ [][Next]_vars


\* ------------------------------------------------------------------------
\* Properties
\* ------------------------------------------------------------------------

\* the requests that got as far as getAllGems: the API uploads past saveGem
\* (they answer 200 whatever the publish does) and the authorized
\* /admin/update-specs requests (they answer 200 or 500)
Publishers ==
  {p \in Requests :
     \/ /\ req[p].kind \in {"api_upload", "update_specs"}
        /\ req[p].pc \in {"list", "get", "put_specs", "put_latest", "put_prerelease"}
     \/ req[p].kind = "api_upload" /\ req[p].pc = "done" /\ req[p].status = 200
     \/ req[p].kind = "update_specs" /\ req[p].pc = "done" /\ req[p].status \in {200, 500}}

Uploads == {p \in Requests : req[p].kind \in {"api_upload", "web_upload", "legacy_upload"}}

\* the (name, version, platform) triple of a stored record
TripleOf(gem) == <<gem.name, gem.version, gem.platform>>

\* the triples of a record list, in its order
TriplesOf(gems) == [i \in DOMAIN gems |-> TripleOf(gems[i])]

\* the triples of the records now in the metadata store
StoredTriples == {TripleOf(kv[k]) : k \in DOMAIN kv}

\* the blob is a gzip member whose payload is the Marshal dump of listing
Lists(blob, listing) ==
  LET x == ReadIndex(blob) IN x.ok /\ x.val = listing

\* the blob is a readable index that has the triple among its entries
Contains(blob, triple) ==
  LET x == ReadIndex(blob) IN x.ok /\ triple \in Range(x.val)

\* the blob is a readable index with one entry per stored record
ListsStore(blob) ==
  LET x == ReadIndex(blob)
  IN  x.ok /\ Range(x.val) = StoredTriples /\ Len(x.val) = Cardinality(DOMAIN kv)

\* C1: when an upload (API or web form) that ran with no other upload or
\* publish alongside answers success, specs.4.8.gz in the bucket lists the
\* (name, version, platform) of the uploaded gem.
C1_UploadIsIndexed ==
  [][\A r \in Requests :
       (/\ req[r].pc # "done"
        /\ req'[r].pc = "done"
        /\ req'[r].kind \in {"api_upload", "web_upload"}
        /\ req'[r].result = "success"
        /\ req'[r].solo)
       => (/\ SpecsKey \in DOMAIN r2'
           /\ Contains(r2'[SpecsKey], TripleOf(req'[r].metadata)))]_vars

\* C2: once two publishes have both finished, every index key whose last
\* put came from one of them holds, whole, what that publish computed from
\* its own record list: the listing of that list under specs and
\* latest_specs, the empty listing under prerelease_specs.
C2_LastWriteWins ==
  \A p \in Publishers, q \in Publishers :
    (p # q /\ req[p].pc = "done" /\ req[q].pc = "done")
    => \A k \in IndexKeys :
         lastWriter[k] \in {p, q}
         => (/\ k \in DOMAIN r2
             /\ Lists(r2[k], IF k = PrereleaseSpecsKey THEN <<>>
                             ELSE TriplesOf(req[lastWriter[k]].gems)))

\* C2 witness: two finished publishes with different record lists, one the
\* last writer of specs, the other the last writer of latest_specs
C2_Witness ==
  \E p \in Publishers, q \in Publishers :
    /\ p # q /\ req[p].pc = "done" /\ req[q].pc = "done"
    /\ req[p].gems # req[q].gems
    /\ req[p].gems # <<>> /\ req[q].gems # <<>>
    /\ lastWriter[SpecsKey] = p /\ lastWriter[LatestSpecsKey] = q
    /\ lastWriter[PrereleaseSpecsKey] = q

C4_OneSnapshot ==
  \A p \in Publishers :
    /\ SpecsKey \in DOMAIN req[p].wrote
         => Lists(req[p].wrote[SpecsKey], TriplesOf(req[p].gems))
    /\ LatestSpecsKey \in DOMAIN req[p].wrote
         => req[p].wrote[LatestSpecsKey] = req[p].wrote[SpecsKey]

\* C4 witness: a publish has put both keys although a record that is not in
\* its record list was saved while it ran
C4_Witness ==
  \E p \in Publishers :
    /\ {SpecsKey, LatestSpecsKey} \subseteq DOMAIN req[p].wrote
    /\ req[p].gems # <<>>
    /\ ~req[p].fresh
    /\ DOMAIN kv # req[p].listed

\* a publish that ran to its end without an error
Completed(p) ==
  /\ p \in Publishers
  /\ req[p].pc = "done"
  /\ ~req[p].thrown
  /\ DOMAIN req[p].wrote = IndexKeys

Serves(r) == req[r].kind = "get_specs" /\ req[r].pc # "done" /\ req'[r].pc = "done"

\* C6: getSpecsIndexFromR2 returns the stored bytes when the key is in the
\* bucket; for a key that is not, the bytes it returns are in the bucket
\* under that key when it returns, so that the next call reads them back.
C6_GetOrGenerate ==
  [][\A r \in Requests :
       Serves(r)
       => IF req[r].filename \in DOMAIN r2
            THEN req'[r].body = r2[req[r].filename]
            ELSE /\ req[r].filename \in DOMAIN r2'
                 /\ r2'[req[r].filename] = req'[r].body]_vars

\* C7: what getSpecsIndexFromR2 returns for an index key that was not in
\* the bucket is a gzip member whose payload is the Marshal dump of the
\* empty array.
C7_DefaultIsEmptyIndex ==
  [][\A r \in Requests :
       (Serves(r) /\ req[r].pc = "r2_put" /\ faults' = faults)
       => Lists(req'[r].body, <<>>)]_vars

\* the key under which a request's metadata is saved
KeyOf(r) == GemKey(req[r].metadata.name, req[r].metadata.version)

\* C8: an API upload whose index publication threw after saveGem answers
\* success, and the record it saved is in the metadata store (as saved, or
\* as saved again by another upload of the same name and version).
C8_PublishFailureNonFatal ==
  \A r \in Requests :
    (req[r].kind = "api_upload" /\ req[r].thrown)
    => /\ req[r].pc = "done"
       /\ req[r].status = 200
       /\ req[r].result = "success"
       /\ KeyOf(r) \in DOMAIN kv
       /\ \/ kv[KeyOf(r)] = req[r].metadata
          \/ \E o \in Uploads \ {r} : kv[KeyOf(r)] = req[o].metadata

\* C8 witness: an API upload answered success although its publish threw
\* at the first put, so that no index key was written
C8_Witness ==
  \E r \in Requests :
    /\ req[r].kind = "api_upload" /\ req[r].thrown /\ req[r].pc = "done"
    /\ req[r].listed # {}
    /\ DOMAIN req[r].wrote = {}
    /\ kv[KeyOf(r)] = req[r].metadata

\* C9: when a put of updateSpecsIndexInR2 fails, the error reaches the
\* caller (/admin/update-specs answers 500), the bucket is left as it is:
\* the keys this publish has put and nobody overwrote hold what it put, the
\* other keys what they held.
C9_PartialPublish ==
  [][\A r \in Requests :
       (/\ req[r].pc \in {"put_specs", "put_latest", "put_prerelease"}
        /\ req'[r] # req[r]
        /\ faults' = faults + 1)
       => /\ req'[r].thrown
          /\ req'[r].pc = "done"
          /\ req[r].kind = "update_specs" => req'[r].status = 500
          /\ r2' = r2
          /\ \A k \in DOMAIN req[r].wrote :
               lastWriter[k] = r => r2'[k] = req[r].wrote[k]]_vars

\* C9 witness: a publish threw after putting specs only; latest_specs still
\* holds what it held before, which differs from the new specs
C9_Witness ==
  \E r \in Publishers :
    /\ req[r].thrown /\ req[r].pc = "done"
    /\ DOMAIN req[r].wrote = {SpecsKey}
    /\ r2[SpecsKey] = req[r].wrote[SpecsKey]
    /\ LatestSpecsKey \in DOMAIN r2
    /\ r2[LatestSpecsKey] # r2[SpecsKey]

\* getAllGems has returned its list to the caller
GotAllGems(r) ==
  /\ r \in Publishers
  /\ \/ req[r].pc \in {"put_specs", "put_latest", "put_prerelease"}
     \/ req[r].pc = "done" /\ DOMAIN req[r].wrote # {}

RECURSIVE UpToDot(_)
UpToDot(s) ==
  IF s = <<>> \/ Head(s) = 46 THEN <<>> ELSE <<Head(s)>> \o UpToDot(Tail(s))

RECURSIVE SplitDots(_)
SplitDots(s) ==
  LET c == UpToDot(s)
  IN  IF Len(c) = Len(s) THEN <<c>>
      ELSE <<c>> \o SplitDots(SubSeq(s, Len(c) + 2, Len(s)))

IsNumber(c) == c # <<>> /\ \A i \in DOMAIN c : IsDigit(c[i])

ComponentRule(x, y) ==
  IF IsNumber(x) /\ IsNumber(y)
    THEN LET a == DigitsValue(x, 1, Len(x))
             b == DigitsValue(y, 1, Len(y))
         IN  IF a < b THEN -1 ELSE IF a > b THEN 1 ELSE 0
  ELSE IF x = y THEN 0
  ELSE IF LexLess(x, y) THEN -1
  ELSE 1

RECURSIVE ComponentsRule(_, _)
ComponentsRule(a, b) ==
  IF a = <<>> /\ b = <<>> THEN 0
  ELSE IF a = <<>> THEN -1
  ELSE IF b = <<>> THEN 1
  ELSE LET c == ComponentRule(Head(a), Head(b))
       IN  IF c # 0 THEN c ELSE ComponentsRule(Tail(a), Tail(b))

\* negative, zero or positive as version a is lower than, equal to or higher
\* than version b
VersionRule(a, b) == ComponentsRule(SplitDots(a), SplitDots(b))

\* C11: the list that getAllGems returns is sorted by name ascending and,
\* among the records of one name, by version descending under the
\* version-ordering rule.
C11_ListSorted ==
  \A r \in Requests :
    (req[r].kind = "list_gems" /\ req[r].pc = "done" /\ req[r].status = 200)
    => \A i \in DOMAIN req[r].gems, j \in DOMAIN req[r].gems :
         i < j
         => /\ ~LexLess(req[r].gems[j].name, req[r].gems[i].name)
            /\ req[r].gems[i].name = req[r].gems[j].name
                 => VersionRule(req[r].gems[i].version, req[r].gems[j].version) >= 0

\* the records of a name now in the metadata store
StoredOf(gemName) == {kv[k] : k \in {x \in DOMAIN kv : kv[x].name = gemName}}

\* C12: getGem, when no record was saved while it ran, returns a stored
\* record of the name whose version no stored record of the name exceeds
\* under the version-ordering rule, and answers not-found exactly when no
\* record of the name is stored.
C12_LatestIsMaximum ==
  \A r \in Requests :
    (req[r].kind = "get_gem" /\ req[r].pc = "done" /\ req[r].fresh /\ req[r].status # 500)
    => /\ req[r].status = 404 <=> StoredOf(req[r].gemName) = {}
       /\ req[r].status = 200
            => /\ req[r].metadata \in StoredOf(req[r].gemName)
               /\ \A g \in StoredOf(req[r].gemName) :
                    VersionRule(g.version, req[r].metadata.version) <= 0

\* the (name, version) of a record
NameVersion(gem) == <<gem.name, gem.version>>

\* saveGem of request r returns in this step
Saves(r) == req[r].pc = "save_gem" /\ req'[r].pc # "save_gem" /\ faults' = faults

\* C13: the metadata store changes only when a saveGem returns; the store
\* then holds the saved record as the only record of its (name, version),
\* every record of another (name, version) as before, and one record per
\* (name, version) saved so far; saving the record that is stored already
\* leaves the store as it is.
C13_UpsertLastWriteWins ==
  [][/\ kv' # kv => \E r \in Requests : Saves(r)
     /\ \A r \in Requests :
          Saves(r)
          => /\ \A k \in DOMAIN kv' :
                  NameVersion(kv'[k]) = NameVersion(req[r].metadata) => kv'[k] = req[r].metadata
             /\ \E k \in DOMAIN kv' : kv'[k] = req[r].metadata
             /\ \A k \in DOMAIN kv :
                  NameVersion(kv[k]) # NameVersion(req[r].metadata)
                  => (k \in DOMAIN kv' /\ kv'[k] = kv[k])
             /\ Cardinality(DOMAIN kv') =
                  Cardinality({NameVersion(kv[k]) : k \in DOMAIN kv}
                                \cup {NameVersion(req[r].metadata)})
             /\ (\E k \in DOMAIN kv : kv[k] = req[r].metadata) => kv' = kv]_vars

\* C13 witness: two uploads of the same name and version with different
\* records have both saved, and the store holds the record saved last (the
\* second one's, whose createdAt or platform differs from the first's)
C13_Witness ==
  \E p \in Uploads, q \in Uploads :
    /\ p < q
    /\ req[p].pc = "done" /\ req[p].result = "success"
    /\ req[q].pc = "done" /\ req[q].result = "success"
    /\ NameVersion(req[p].metadata) = NameVersion(req[q].metadata)
    /\ req[p].metadata # req[q].metadata
    /\ Cardinality(DOMAIN kv) = 1
    /\ \E k \in DOMAIN kv : kv[k] = req[q].metadata

\* C14: no step changes the createdAt of a record that is in the metadata
\* store: not a re-upload of its name and version, not a download, not a
\* publish.
C14_CreatedAtImmutable ==
  [][\A k \in DOMAIN kv :
       k \in DOMAIN kv' /\ kv'[k].createdAt = kv[k].createdAt]_vars

\* incrementDownloads of request r writes the record in this step
Increments(r) ==
  req[r].kind = "legacy_download" /\ req[r].pc = "inc_put" /\ kv' # kv

\* C15: no step lowers the download counter of a stored record, and only
\* the put of incrementDownloads, on the download path, changes it.
C15_CounterMonotonic ==
  [][\A k \in DOMAIN kv :
       /\ k \in DOMAIN kv'
       /\ kv'[k].downloads >= kv[k].downloads
       /\ kv'[k].downloads # kv[k].downloads => \E r \in Requests : Increments(r)]_vars

\* the downloads of a record that have returned its archive
Downloaded(k) ==
  {r \in Requests :
     /\ req[r].kind \in {"download", "legacy_download"}
     /\ req[r].pc = "done" /\ req[r].status = 200
     /\ MatchGemFile(req[r].filename).ok
     /\ GemKey(MatchGemFile(req[r].filename).name, MatchGemFile(req[r].filename).version) = k}

\* C16: the download counter of a stored record that has not been uploaded
\* again is no less than the number of downloads that have returned its
\* archive: every such download has added one.
C16_DownloadsCounted ==
  \A k \in DOMAIN kv :
    (\A u \in Uploads : req[u].pc = "idle" \/ KeyOf(u) # k)
    => kv[k].downloads >= Cardinality(Downloaded(k))

\* C17: a download that has read the archive from the bucket returns it,
\* whatever becomes of incrementDownloads.
C17_IncrementFailureNonFatal ==
  [][\A r \in Requests :
       (req[r].pc \in {"inc_get", "inc_put"} /\ req'[r].pc = "done")
       => /\ req'[r].status = 200
          /\ req'[r].body = r2[req[r].filename]]_vars

\* an upload r writes its archive or saves its record in this step
Stores(r) ==
  /\ r \in Uploads
  /\ req[r].pc \in {"put_gem", "save_gem"}
  /\ req'[r].pc # req[r].pc
  /\ faults' = faults

\* what the request presented is the administrator's credentials, or a
\* token that POST /login has set and that has not expired
Authenticated(rq) ==
  IF rq.kind = "web_upload"
    THEN rq.presented \in sessions /\ ~(rq.presented.exp < now)
    ELSE BasicAuthorized(rq.presented)

\* C18: the metadata store changes only when an upload stores, and an
\* upload that writes an archive or saves a record presented the
\* administrator's Basic credentials or an unexpired token set by a
\* successful login.
C18_StoreNeedsCredentials ==
  [][/\ kv' # kv => \E r \in Requests : Stores(r)
     /\ \A r \in Requests : Stores(r) => Authenticated(req[r])]_vars

\* C19: the archive of every record of the metadata store is in the bucket
\* under the key that GET /gems/<name>-<version>.gem reads.
C19_ArchiveDownloadable ==
  \A k \in DOMAIN kv : DownloadKey(WebObjectKey(kv[k])) \in DOMAIN r2

\* the routes that read an index artifact
ReadsIndex(rq) == rq.kind \in {"get_specs", "info", "names"}

\* C20: a read of an index artifact that ends because a store operation
\* threw is answered with a 5xx status.
C20_ReadFailureIsServerError ==
  [][\A r \in Requests :
       (/\ ReadsIndex(req[r])
        /\ Active(req[r])
        /\ req'[r].pc = "done"
        /\ faults' = faults + 1)
       => req'[r].status >= 500]_vars

\* dump or the compression stream of request r throws in this step
EncodingFails(r) == req[r].cause = "none" /\ req'[r].cause = "encode"

\* C21: when dump or the compression throws, generateSpecsGz returns a gzip
\* member whose payload is the Marshal dump of the empty array, and the
\* caller of updateSpecsIndexInR2 gets no error.
C21_EncodingFallback ==
  [][\A r \in Requests :
       EncodingFails(r)
       => IF req[r].kind = "generate_specs"
            THEN Lists(req'[r].body, <<>>)
            ELSE ~req'[r].thrown /\ req'[r].status # 500]_vars

\* the stored records of a name, in the order of their keys
StoredSeq(gemName) ==
  LET keys == KvList(kv, NamePrefix(gemName)) IN [i \in DOMAIN keys |-> kv[keys[i]]]

\* <depName>:<depRequirement> pairs, comma-joined in stored order
RECURSIVE DependencyPairs(_)
DependencyPairs(dependencies) ==
  IF dependencies = <<>> THEN <<>>
  ELSE Head(dependencies).name \o <<58>> \o Head(dependencies).requirements
         \o (IF Len(dependencies) > 1 THEN <<44>> ELSE <<>>)
         \o DependencyPairs(Tail(dependencies))

\* <version>,<contentHash>,<platform>, then a comma and the pairs only when
\* the record has dependencies
LineOf(gem) ==
  gem.version \o <<44>> \o gem.sha \o <<44>> \o gem.platform
    \o (IF gem.dependencies = <<>> THEN <<>> ELSE <<44>> \o DependencyPairs(gem.dependencies))
    \o <<10>>

RECURSIVE LinesOf(_)
LinesOf(gems) == IF gems = <<>> THEN <<>> ELSE LineOf(Head(gems)) \o LinesOf(Tail(gems))

\* ascending under the version-ordering rule
AscendingRule(a, b) == VersionRule(a.version, b.version)

\* C22: the body that GET /info/<name> answers on an unchanging store is one
\* line per stored version of the name, ascending under the version rule,
\* each <version>,<hash>,<platform> followed by a comma and the
\* <name>:<requirement> pairs only when the record has dependencies.
C22_InfoLines ==
  \A r \in Requests :
    (req[r].kind = "info" /\ req[r].pc = "done" /\ req[r].status = 200)
    => req[r].body = LinesOf(SortBy(StoredSeq(req[r].gemName), AscendingRule))

\* the lines of a text, each without its line feed
RECURSIVE UpToLineFeed(_)
UpToLineFeed(s) ==
  IF s = <<>> \/ Head(s) = 10 THEN <<>> ELSE <<Head(s)>> \o UpToLineFeed(Tail(s))

RECURSIVE SplitLines(_)
SplitLines(s) ==
  IF s = <<>> THEN <<>>
  ELSE LET line == UpToLineFeed(s)
       IN  <<line>> \o SplitLines(SubSeq(s, Len(line) + 2, Len(s)))

\* the distinct names of the store
StoredNames == {kv[k].name : k \in DOMAIN kv}

\* the stored versions of a name, ascending under the version rule
VersionsAscending(gemName) ==
  LET gems == SortBy(StoredSeq(gemName), AscendingRule)
  IN  [i \in DOMAIN gems |-> gems[i].version]

\* C23: the body that GET /versions answers on an unchanging store has one
\* line per distinct stored name, and the line of a name lists each of its
\* stored versions once, comma-joined, ascending under the version rule.
C23_VersionsList ==
  \A r \in Requests :
    (req[r].kind = "versions" /\ req[r].pc = "done" /\ req[r].status = 200)
    => LET lines == SplitLines(req[r].body)
       IN  /\ Len(lines) = Cardinality(StoredNames)
           /\ \A n \in StoredNames :
                \E i \in DOMAIN lines :
                   lines[i] = n \o <<32>> \o JoinCommas(VersionsAscending(n))

HashGet(h, key) ==
  LET i == CHOOSE j \in DOMAIN h.v : j % 2 = 1 /\ h.v[j] = Str(key) IN h.v[i + 1]

\* the name, version, platform and dependency list of a decoded entry
EntryOf(h) ==
  [name     |-> HashGet(h, KeyName).v,
   version  |-> HashGet(h, KeyNumber).v,
   platform |-> HashGet(h, KeyPlatform).v,
   dependencies |->
     LET deps == HashGet(h, KeyDependencies).v
     IN  [i \in DOMAIN deps |-> [name |-> deps[i].v[1].v, requirements |-> deps[i].v[2].v]]]

\* what the claim expects of a stored record
EntryOfRecord(gem) ==
  [name |-> gem.name, version |-> gem.version, platform |-> gem.platform,
   dependencies |-> gem.dependencies]

\* the stored records whose name is one of the requested names
Requested(r) == {k \in DOMAIN kv : kv[k].name \in Range(req[r].requested)}

\* C25: a request to GET /api/v1/dependencies that no store failure has
\* ended is answered with the Marshal dump of an array that has one entry
\* for each stored record whose name is one of the requested names, with
\* that record's version, platform and dependencies, and no other entry:
\* the empty array when nothing is requested or nothing matches.
C25_DependenciesResponse ==
  \A r \in Requests :
    (req[r].kind = "dependencies" /\ req[r].pc = "done" /\ req[r].status # 500)
    => /\ req[r].status = 200
       /\ LET x == LoadAny(req[r].body)
          IN  /\ x.ok /\ x.val.t = "a"
              /\ Len(x.val.v) = Cardinality(Requested(r))
              /\ {EntryOf(x.val.v[i]) : i \in DOMAIN x.val.v}
                   = {EntryOfRecord(kv[k]) : k \in Requested(r)}

\* C26: GET /info/<name> for a name that has no record in the metadata
\* store, when no store operation fails, is answered with status 200 and an
\* empty body.
C26_UnknownNameEmpty ==
  [][\A r \in Requests :
       (/\ req[r].kind = "info"
        /\ Active(req[r])
        /\ req'[r].pc = "done"
        /\ faults' = faults
        /\ StoredSeq(req[r].gemName) = <<>>)
       => req'[r].status = 200 /\ req'[r].body = <<>>]_vars

\* C26 witness: GET /info/<name> was answered for a name without records
\* while the store holds records of other names
C26_Witness ==
  \E r \in Requests :
    /\ req[r].kind = "info" /\ req[r].pc = "done" /\ req[r].status = 200
    /\ StoredSeq(req[r].gemName) = <<>>
    /\ DOMAIN kv # {}
    /\ faults = 0

\* C27: the comparators of getAllGems, getGem, generateInfoContent and
\* generateVersionsContent order any two stored versions as the
\* component-wise rule does (getAllGems and getGem descending, the other
\* two ascending).
C27_ComparatorIsRule ==
  \A j \in DOMAIN kv, k \in DOMAIN kv :
    LET a == kv[j]
        b == kv[k]
    IN  /\ a.name = b.name => GemCompare(a, b) = VersionRule(b.version, a.version)
        /\ GetGemCompare(a, b) = VersionRule(b.version, a.version)
        /\ InfoCompare(a, b) = VersionRule(a.version, b.version)
        /\ SortVersions(<<a.version, b.version>>)
             = IF VersionRule(a.version, b.version) <= 0 THEN <<a.version, b.version>>
               ELSE <<b.version, a.version>>

\* the records of a store in the order of their keys, as the generators
\* read them
RecordsOf(store) ==
  LET keys == KvList(store, GemPrefix) IN [i \in DOMAIN keys |-> store[keys[i]]]

\* the index artifacts generated from a store: the names list, the versions
\* list, the info of each name, the three legacy index files and the
\* dependency response for each parameter
ArtifactsOf(store) ==
  LET gems == SortGems(RecordsOf(store))
  IN  [names    |-> NamesContent(KvList(store, GemPrefix)),
       versions |-> VersionsContent(RecordsOf(store)),
       info     |-> [n \in {Foo, Bar} |->
                       InfoLines(SortBy(SelectSeq(RecordsOf(store), LAMBDA g : g.name = n),
                                        InfoCompare))],
       specs    |-> [k \in IndexKeys |-> PublishedValue(k, gems)],
       dependencies |-> [p \in GemsParams \ {<<>>} |->
                           GenerateDependenciesResponse(gems, SplitCommas(p))]]

\* the store with every download counter set to zero
WithoutCounters(store) == [k \in DOMAIN store |-> [store[k] EXCEPT !.downloads = 0]]

\* C28: the put of incrementDownloads changes nothing but the download
\* counter of the record it addresses, the index artifacts generated from
\* the store are the same before and after it, and they are those of the
\* store with all counters at zero.
C28_IncrementFrame ==
  [][\A r \in Requests :
       (/\ req[r].kind = "legacy_download"
        /\ req[r].pc = "inc_put"
        /\ req'[r].pc = "done"
        /\ faults' = faults)
       => /\ DOMAIN kv' = DOMAIN kv
          /\ \A k \in DOMAIN kv :
               /\ [kv'[k] EXCEPT !.downloads = 0] = [kv[k] EXCEPT !.downloads = 0]
               /\ k # GemKey(req[r].gemName, req[r].version) => kv'[k] = kv[k]
          /\ ArtifactsOf(kv') = ArtifactsOf(kv)
          /\ ArtifactsOf(kv') = ArtifactsOf(WithoutCounters(kv'))]_vars

\* the request is a publish (an API upload or /admin/update-specs)
IsPublisher(r) == r \in Requests /\ req[r].kind \in {"api_upload", "update_specs"}

\* C29: an index key that a publish has written last is not written by a
\* getSpecsIndexFromR2: its content changes only by another publish.
C29_DefaultNeverReplacesPublished ==
  [][\A k \in IndexKeys :
       (k \in DOMAIN r2 /\ IsPublisher(lastWriter[k]) /\ r2'[k] # r2[k])
       => /\ IsPublisher(lastWriter'[k])
          /\ req[lastWriter'[k]].pc \in {"put_specs", "put_latest", "put_prerelease"}]_vars

\* C30: when an upload of a name and version has succeeded, a download of
\* that file has finished and no other upload of it was made, the stored
\* record has the content hash, platform and dependencies of the upload.
C30_IncrementKeepsUpload ==
  \A u \in Uploads, d \in Requests :
    (/\ req[u].pc = "done" /\ req[u].result = "success"
     /\ req[d].kind = "legacy_download" /\ req[d].pc = "done"
     /\ GemKey(req[d].gemName, req[d].version) = KeyOf(u)
     /\ \A o \in Uploads \ {u} : KeyOf(o) # KeyOf(u))
    => /\ KeyOf(u) \in DOMAIN kv
       /\ kv[KeyOf(u)].sha = req[u].metadata.sha
       /\ kv[KeyOf(u)].platform = req[u].metadata.platform
       /\ kv[KeyOf(u)].dependencies = req[u].metadata.dependencies

====
